---- MODULE Spec2Model ----
(***************************************************************************)
(* The perpetual-futures paper-trading simulator PerpSimAdapter            *)
(* (src/apps/worker/adapters/perpsim.py) as a state machine.               *)
(*                                                                         *)
(* The engine runs on one asyncio event loop.  A step of the model is one  *)
(* stretch of code that runs without yielding to the loop:                 *)
(*   - on_market_data, a plain function, runs to its end;                  *)
(*   - a coroutine runs up to its next await of the database;              *)
(*   - a task made by asyncio.create_task starts later, in creation order. *)
(* Python floats are modelled as exact numbers on a fixed decimal grid.    *)
(***************************************************************************)
EXTENDS Integers, Sequences, FiniteSets, TLC

\* ------------------------------------------------------------ bounds
\* external requests (ticks, orders, cancels, account reads) in one run
MaxSteps == 4
\* largest exposure |position| + resting + pending quantity per symbol
MaxPos == 3
\* fill tasks waiting in the event loop's ready queue
MaxReady == 2
\* fills suspended in insert_trade at the same time
MaxPersist == 1
\* wall clock, in seconds
MaxTime == 120
\* ticker messages whose handling raises
MaxErrors == 1

\* ------------------------------------------------------------ program constants
\* PerpSimAdapter.__init__: self.cash = 10000.0
InitialCash == 10000
\* PerpSimConfig defaults
mm_pct == 3
slippage_bps == 1
fee_bps == 2
liq_penalty_bps == 5
\* _calculate_funding_rate, mode B: +-0.0001
funding_rate_bps == 1
\* Order.leverage default of the dataclass
DefaultLeverage == 1
\* _accrue_funding: one minute
FundingPeriod == 60

\* ------------------------------------------------------------ numbers
\* A float is modelled exactly as i + f/Grid with 0 <= f < Grid.
Grid == 256 * 81 * 625

Num(i) == [i |-> i, f |-> 0]

Norm(i, f) == [i |-> i + (f \div Grid), f |-> f % Grid]

Add(a, b) == Norm(a.i + b.i, a.f + b.f)

Neg(a) == Norm(0 - a.i, 0 - a.f)

Sub(a, b) == Add(a, Neg(b))

Less(a, b) == a.i < b.i \/ (a.i = b.i /\ a.f < b.f)

Leq(a, b) == a = b \/ Less(a, b)

IsZero(a) == a.i = 0 /\ a.f = 0

Abs(a) == IF Less(a, Num(0)) THEN Neg(a) ELSE a

\* a * n for an integer 0 <= n <= 100
MulSmall(a, n) == Norm(a.i * n, a.f * n)

\* a * n for an integer n
RECURSIVE Mul(_, _)
Mul(a, n) ==
    IF n < 0 THEN Neg(Mul(a, 0 - n))
    ELSE IF n <= 100 THEN MulSmall(a, n)
    ELSE Add(MulSmall(Mul(a, n \div 100), 100), MulSmall(a, n % 100))

\* a / n for an integer 1 <= n <= 100; the quotient must lie on the grid
DivSmall(a, n) ==
    LET q == a.i \div n
        r == (a.i % n) * Grid + a.f
    IN  [i |-> q, f |-> CHOOSE x \in {r \div n} : x * n = r]

\* a / n for an integer n >= 1 whose prime factors are below 100
RECURSIVE Div(_, _)
Div(a, n) ==
    IF n <= 100 THEN DivSmall(a, n)
    ELSE LET d == CHOOSE k \in 2..100 :
                    n % k = 0 /\ \A j \in (k + 1)..100 : n % j # 0
         IN  Div(DivSmall(a, d), n \div d)

\* x * bps / 10000
Bps(x, bps) == Div(Mul(x, bps), 10000)

Sign(n) == IF n > 0 THEN 1 ELSE IF n < 0 THEN 0 - 1 ELSE 0

AbsInt(n) == IF n < 0 THEN 0 - n ELSE n

MinInt(a, b) == IF a < b THEN a ELSE b

\* ------------------------------------------------------------ inputs
\* settings.sim_symbols: the symbols the feed subscribes to
Symbols == {"BTC-USD", "ETH-USD"}

\* a product the feed has no subscription for
Untracked == {"SOL-USD"}

\* best bid / best ask pairs the feed delivers, in dollars
Low == <<10000, 20000>>

High == <<20000, 30000>>

\* the ticks of the feed: symbol and quote
Ticks == {<<"BTC-USD", Low>>, <<"BTC-USD", High>>, <<"ETH-USD", High>>}

\* seconds between two ticks
TimeSteps == {0, 60}

Sides == {"buy", "sell"}

\* the sizes of the ordinary market orders; two of them reach MaxPos
Qtys == 1..(MaxPos - 1)

ClientIds == {"c1", "c2"}

\* Python None, for a timestamp and for Order.limit_price
NoTime == 0 - 1

NoPrice == Num(0 - 1)

FundingModes == {"B"}

\* base.Order; reduce_only takes the default of the dataclass
Order(symbol, side, qty, order_type, limit_price, client_id, leverage) ==
    [symbol |-> symbol, side |-> side, qty |-> qty, order_type |-> order_type,
     limit_price |-> limit_price, client_id |-> client_id, leverage |-> leverage,
     reduce_only |-> FALSE]

\* the order with reduce_only=True
ReduceOnly(order) == [order EXCEPT !.reduce_only = TRUE]

\* SimOrder: the resting record made by place_order
SimOrder(order) ==
    [client_id |-> order.client_id, symbol |-> order.symbol, side |-> order.side,
     qty |-> order.qty, limit_price |-> order.limit_price,
     reduce_only |-> order.reduce_only]

\* SimPosition(symbol=..., last_funding_ts=utcnow()) with the dataclass defaults
SimPosition(ts) ==
    [qty |-> 0, avg_entry |-> Num(0), realized_pl |-> Num(0),
     last_funding_ts |-> ts, leverage |-> DefaultLeverage, entry_time |-> NoTime]

\* ------------------------------------------------------------ state
VARIABLES
    funding_mode,        \* config.funding_mode
    cash,                \* self.cash
    positions,           \* self.positions: symbol -> SimPosition
    open_orders,         \* self.open_orders: dict in insertion order
    cumulative_fees,     \* self.cumulative_fees
    cumulative_funding,  \* self.cumulative_funding
    market_cache,        \* self.market_cache: symbol -> MarketInfo
    ema24,               \* self.ema24: symbol -> ema of the mark
    ready,               \* event loop: fill tasks created and not yet started
    persisting,          \* fill tasks suspended in db.insert_trade
    call,                \* the caller's place_order suspended in db.insert_trade
    result,              \* the PlacedOrder / CancelResult last returned
    account,             \* the AccountState last returned
    now,                 \* datetime.utcnow(), seconds
    steps,               \* external requests so far
    op,                  \* the step just taken
    realizedPL_sum,      \* history: realized P&L of every fill so far
    fees_sum,            \* history: fee of every fill so far
    liq_fees_sum,        \* history: liquidation fees charged so far
    nTrig,               \* history: fills triggered so far
    applied,             \* history: symbol -> trigger number of its last applied fill
    cycle,               \* history: symbol -> its position since it was last opened
    funded,              \* history: symbol -> the funding evaluations of its position
    order_log,           \* history: the limit orders accepted into open_orders
    feed,                \* CoinbaseWebSocket: its message loop
    markets,             \* the MarketState last returned, and the symbols asked for
    used_client_ids,     \* Worker.used_client_ids
    pending_action       \* Worker: the normalized action that is being executed

engine == <<cash, positions, open_orders, cumulative_fees, cumulative_funding,
            market_cache, ema24>>

history == <<realizedPL_sum, fees_sum, liq_fees_sum, nTrig, applied, cycle, funded,
             order_log>>

worker == <<used_client_ids, pending_action>>

vars == <<funding_mode, engine, ready, persisting, call, result, account, now,
          steps, op, history, feed, markets, worker>>

\* ------------------------------------------------------------ fill engine
\* a fill price without slippage, at the touch
calculate_fill_price_at_touch(side, best_bid, best_ask) ==
    IF side = "buy" THEN best_ask ELSE best_bid

\* _calculate_fill_price: best ask plus slippage for a buy, best bid less slippage
\* for a sell
calculate_fill_price(side, best_bid, best_ask) ==
    IF side = "buy"
    THEN Add(best_ask, Bps(best_ask, slippage_bps))
    ELSE Sub(best_bid, Bps(best_bid, slippage_bps))

\* _execute_fill, line 339
qty_signed(order) == IF order.side = "buy" THEN order.qty ELSE 0 - order.qty

\* a fee paid to the order as a rebate
fill_fee_rebate(order, fill_price) ==
    Neg(Bps(Mul(fill_price, AbsInt(order.qty)), fee_bps))

\* _execute_fill, lines 351-353: fee = |qty| * fill_price * fee_bps / 10000
fill_fee(order, fill_price) == Bps(Mul(fill_price, AbsInt(order.qty)), fee_bps)

\* an average entry that gives both prices the same weight
entry_unweighted(old_qty, avg_entry, delta, fill_price) ==
    DivSmall(Add(avg_entry, fill_price), 2)

\* _execute_fill, lines 367-369: the average entry after adding to a position
weighted_entry(old_qty, avg_entry, delta, fill_price) ==
    LET total_cost == Add(Mul(avg_entry, old_qty), Mul(fill_price, delta))
        new_qty    == old_qty + delta
    IN  IF new_qty > 0 THEN Div(total_cost, new_qty)
        ELSE Div(Neg(total_cost), 0 - new_qty)

\* a realized P&L taken on the whole fill quantity, not on the closed part
realized_on_whole_fill(old_qty, avg_entry, delta, fill_price) ==
    IF old_qty > 0
    THEN Mul(Sub(fill_price, avg_entry), AbsInt(delta))
    ELSE Mul(Sub(avg_entry, fill_price), AbsInt(delta))

\* _execute_fill, lines 375-381: the P&L realized on the closed part
realized_on_close(old_qty, avg_entry, delta, fill_price) ==
    LET close_qty == MinInt(AbsInt(delta), AbsInt(old_qty))
    IN  IF old_qty > 0
        THEN Mul(Sub(fill_price, avg_entry), close_qty)
        ELSE Mul(Sub(avg_entry, fill_price), close_qty)

\* a fill that takes leverage and entry time from every order against an open
\* position
fill_position_releveraged(pos, order, fill_price, ts) ==
    LET old_qty == pos.qty
        delta   == qty_signed(order)
        new_qty == old_qty + delta
    IN  [pos EXCEPT
            !.qty = new_qty,
            !.avg_entry = IF old_qty = 0 \/ new_qty * old_qty < 0 THEN fill_price
                          ELSE IF old_qty * delta > 0
                          THEN weighted_entry(old_qty, pos.avg_entry, delta, fill_price)
                          ELSE pos.avg_entry,
            !.realized_pl = IF old_qty # 0 /\ old_qty * delta < 0
                            THEN Add(pos.realized_pl,
                                     realized_on_close(old_qty, pos.avg_entry, delta,
                                                       fill_price))
                            ELSE pos.realized_pl,
            !.leverage = order.leverage,
            !.entry_time = ts]

\* a fill that marks what is left of a partly closed position to the fill price
fill_position_remarked(pos, order, fill_price, ts) ==
    LET old_qty == pos.qty
        delta   == qty_signed(order)
        new_qty == old_qty + delta
    IN  [pos EXCEPT
            !.qty = new_qty,
            !.avg_entry = IF old_qty = 0 \/ old_qty * delta < 0 THEN fill_price
                          ELSE weighted_entry(old_qty, pos.avg_entry, delta, fill_price),
            !.realized_pl = IF old_qty # 0 /\ old_qty * delta < 0
                            THEN Add(pos.realized_pl,
                                     realized_on_close(old_qty, pos.avg_entry, delta,
                                                       fill_price))
                            ELSE pos.realized_pl,
            !.leverage = IF old_qty = 0 \/ new_qty * old_qty < 0
                         THEN order.leverage ELSE pos.leverage,
            !.entry_time = IF old_qty = 0 \/ new_qty * old_qty < 0
                           THEN ts ELSE pos.entry_time]

\* _execute_fill, lines 356-394: the position after the fill
fill_position(pos, order, fill_price, ts) ==
    LET old_qty == pos.qty
        delta   == qty_signed(order)
        new_qty == old_qty + delta
    IN  IF old_qty = 0
        THEN [pos EXCEPT !.qty = new_qty, !.avg_entry = fill_price,
                         !.leverage = order.leverage, !.entry_time = ts]
        ELSE IF old_qty * delta > 0
        THEN [pos EXCEPT !.qty = new_qty,
                         !.avg_entry = weighted_entry(old_qty, pos.avg_entry,
                                                      delta, fill_price)]
        ELSE LET closed == [pos EXCEPT
                    !.realized_pl = Add(pos.realized_pl,
                        realized_on_close(old_qty, pos.avg_entry, delta, fill_price)),
                    !.qty = new_qty]
             IN  IF new_qty # 0 /\ AbsInt(new_qty) < AbsInt(old_qty)
                 THEN closed
                 ELSE IF new_qty * old_qty < 0
                 THEN [closed EXCEPT !.avg_entry = fill_price,
                                     !.leverage = order.leverage,
                                     !.entry_time = ts]
                 ELSE closed

\* _execute_fill, lines 363, 371, 379-381: realized_pnl of the fill
fill_realized(pos, order, fill_price) ==
    IF pos.qty = 0 \/ pos.qty * qty_signed(order) > 0
    THEN Num(0)
    ELSE realized_on_close(pos.qty, pos.avg_entry, qty_signed(order), fill_price)

\* a fill that leaves the cash update for after its persistence call
fill_cash_after_persist(c, fee, realized_pnl) == c

\* _execute_fill, lines 396-398: cash after the fee and the realized P&L
fill_cash(c, fee, realized_pnl) == Add(Sub(c, fee), realized_pnl)

\* a fill that cuts a reduce-only order down to the open quantity it can close
execute_fill_reduce_only(p, c, cf, order, fill_price, ts) ==
    LET sym  == order.symbol
        p1   == IF sym \in DOMAIN p THEN p
                ELSE [s \in DOMAIN p \cup {sym} |->
                        IF s = sym THEN SimPosition(ts) ELSE p[s]]
        pos  == p1[sym]
        room == IF pos.qty * qty_signed(order) < 0 THEN AbsInt(pos.qty) ELSE 0
        o    == IF order.reduce_only
                THEN [order EXCEPT !.qty = MinInt(order.qty, room)] ELSE order
        fee  == fill_fee(o, fill_price)
        rpnl == fill_realized(pos, o, fill_price)
    IN  [positions       |-> [p1 EXCEPT ![sym] =
                                 IF o.qty = 0 THEN pos
                                 ELSE fill_position(pos, o, fill_price, ts)],
         cumulative_fees |-> Sub(cf, fee),
         cash            |-> fill_cash(c, fee, rpnl),
         fee             |-> fee,
         realized_pnl    |-> rpnl,
         old_qty         |-> pos.qty]

\* _execute_fill, lines 338-398: everything the coroutine does before it first
\* yields, at "await self.db.insert_trade".  p, c, cf are positions, cash and
\* cumulative_fees when the coroutine starts.
execute_fill(p, c, cf, order, fill_price, ts) ==
    LET sym  == order.symbol
        p1   == IF sym \in DOMAIN p THEN p
                ELSE [s \in DOMAIN p \cup {sym} |->
                        IF s = sym THEN SimPosition(ts) ELSE p[s]]
        pos  == p1[sym]
        fee  == fill_fee(order, fill_price)
        rpnl == fill_realized(pos, order, fill_price)
    IN  [positions       |-> [p1 EXCEPT ![sym] = fill_position(pos, order, fill_price, ts)],
         cumulative_fees |-> Sub(cf, fee),
         cash            |-> fill_cash(c, fee, rpnl),
         fee             |-> fee,
         realized_pnl    |-> rpnl,
         old_qty         |-> pos.qty]

\* ------------------------------------------------------------ tick handling
\* one step of the price grid: every mark the feed delivers is a multiple of it
MarkUnit == 5 * 1000

\* _update_ema: alpha = 2 / 25
ema_alpha_num == 2
ema_alpha_den == 25

RECURSIVE Pow(_, _)
Pow(b, k) == IF k = 0 THEN 1 ELSE b * Pow(b, k - 1)

\* An ema is kept exactly as n * MarkUnit / ema_alpha_den^k, in lowest terms.
RECURSIVE EmaNorm(_, _)
EmaNorm(n, k) ==
    IF k > 0 /\ n % ema_alpha_den = 0 THEN EmaNorm(n \div ema_alpha_den, k - 1)
    ELSE [n |-> n, k |-> k]

MarkUnits(mark) == CHOOSE m \in {mark.i \div MarkUnit} : Num(m * MarkUnit) = mark

EmaOf(mark) == [n |-> MarkUnits(mark), k |-> 0]

\* mark > ema
AboveEma(mark, ema) == MarkUnits(mark) * Pow(ema_alpha_den, ema.k) > ema.n

\* an ema update that sets the ema of every symbol to the mark of the tick
update_ema_of_every_symbol(ema, symbol, mark) ==
    [s \in DOMAIN ema \cup {symbol} |-> EmaOf(mark)]

\* _update_ema: the first mark seeds the ema, later marks move it by alpha
update_ema(ema, symbol, mark) ==
    IF symbol \notin DOMAIN ema
    THEN [s \in DOMAIN ema \cup {symbol} |->
            IF s = symbol THEN EmaOf(mark) ELSE ema[s]]
    ELSE LET e == ema[symbol]
         IN  [ema EXCEPT ![symbol] =
                EmaNorm(ema_alpha_num * MarkUnits(mark) * Pow(ema_alpha_den, e.k)
                          + (ema_alpha_den - ema_alpha_num) * e.n,
                        e.k + 1)]

\* a funding rate that takes the heuristic of mode B for the stub of mode C
calculate_funding_rate_stub_as_heuristic(mode, ema, symbol, mark) ==
    IF mode = "A" THEN 0
    ELSE LET e == IF symbol \in DOMAIN ema THEN ema[symbol] ELSE EmaOf(mark)
         IN  IF AboveEma(mark, e) THEN funding_rate_bps ELSE 0 - funding_rate_bps

\* _calculate_funding_rate, in units of 0.0001 per 8 hours
calculate_funding_rate(mode, ema, symbol, mark) ==
    IF mode = "A" THEN 0
    ELSE IF mode = "B"
    THEN LET e == IF symbol \in DOMAIN ema THEN ema[symbol] ELSE EmaOf(mark)
         IN  IF AboveEma(mark, e) THEN funding_rate_bps ELSE 0 - funding_rate_bps
    ELSE 0

\* on_market_data, lines 289-310: the cache entry of the tick
MarketInfo(best_bid, best_ask, rate) ==
    [best_bid |-> best_bid, best_ask |-> best_ask,
     mark |-> DivSmall(Add(best_bid, best_ask), 2), funding_8h_rate |-> rate]

\* a crossing test that wants the quote strictly through the limit price
is_crossed_strictly(o, symbol, best_bid, best_ask) ==
    /\ o.symbol = symbol
    /\ \/ o.side = "buy" /\ Less(best_ask, o.limit_price)
       \/ o.side = "sell" /\ Less(o.limit_price, best_bid)

\* _try_fill_limits, lines 421-441: the order is crossed by the tick
is_crossed(o, symbol, best_bid, best_ask) ==
    /\ o.symbol = symbol
    /\ \/ o.side = "buy" /\ Leq(best_ask, o.limit_price)
       \/ o.side = "sell" /\ Leq(o.limit_price, best_bid)

\* _try_fill_limits, lines 428-435 and 444-451: the Order handed to _execute_fill;
\* leverage is not passed and takes the dataclass default
limit_fill_order(o) ==
    Order(o.symbol, o.side, o.qty, "limit", o.limit_price, o.client_id, DefaultLeverage)

\* the unrealized P&L of a position at a mark (get_account_state 117-120,
\* _check_liquidation 523-527)
unrealized_pl(pos, mark) ==
    IF pos.qty > 0
    THEN Mul(Sub(mark, pos.avg_entry), pos.qty)
    ELSE Mul(Sub(pos.avg_entry, mark), AbsInt(pos.qty))

\* a funding payment that credits the longs when the rate is positive
funding_payment_to_longs(qty, mark, rate) ==
    Mul(Div(Mul(Mul(mark, AbsInt(qty)), rate), 10000 * 8 * 60), Sign(qty))

\* _accrue_funding, lines 488-499: the payment of one accrual
funding_payment(qty, mark, rate) ==
    LET notional == Mul(mark, AbsInt(qty))
    IN  Mul(Div(Mul(notional, rate), 10000 * 8 * 60), 0 - Sign(qty))

\* an accrual on every tick for an open position, however short the time since
\* the last one
accrue_funding_every_tick(p, cfund, cache, symbol, rate, ts) ==
    LET none == [positions |-> p, cumulative_funding |-> cfund, paid |-> FALSE,
                 payment |-> Num(0)]
    IN  IF symbol \notin DOMAIN p THEN none
        ELSE IF p[symbol].qty = 0 THEN none
        ELSE LET pay == Mul(Div(Mul(Mul(cache[symbol].mark, AbsInt(p[symbol].qty)),
                                    rate), 10000 * 8 * 60),
                            0 - Sign(p[symbol].qty))
             IN  [positions |-> [p EXCEPT ![symbol].last_funding_ts = ts],
                  cumulative_funding |-> Add(cfund, pay),
                  paid |-> TRUE, payment |-> pay]

\* an accrual that pays for every minute since the last one
accrue_funding_per_minute_elapsed(p, cfund, cache, symbol, rate, ts) ==
    LET none == [positions |-> p, cumulative_funding |-> cfund, paid |-> FALSE,
                 payment |-> Num(0)]
    IN  IF symbol \notin DOMAIN p THEN none
        ELSE IF p[symbol].qty = 0 THEN none
        ELSE IF p[symbol].last_funding_ts = NoTime
        THEN [none EXCEPT !.positions = [p EXCEPT ![symbol].last_funding_ts = ts]]
        ELSE IF ts - p[symbol].last_funding_ts < FundingPeriod THEN none
        ELSE IF symbol \notin DOMAIN cache THEN none
        ELSE LET pay == Mul(funding_payment(p[symbol].qty, cache[symbol].mark, rate),
                            (ts - p[symbol].last_funding_ts) \div FundingPeriod)
             IN  [positions |-> [p EXCEPT ![symbol].last_funding_ts = ts],
                  cumulative_funding |-> Add(cfund, pay),
                  paid |-> TRUE, payment |-> pay]

\* _accrue_funding: positions and cumulative_funding after the tick's accrual
accrue_funding(p, cfund, cache, symbol, rate, ts) ==
    LET none == [positions |-> p, cumulative_funding |-> cfund, paid |-> FALSE,
                 payment |-> Num(0)]
    IN  IF symbol \notin DOMAIN p THEN none
        ELSE IF p[symbol].qty = 0 THEN none
        ELSE IF p[symbol].last_funding_ts = NoTime
        THEN [none EXCEPT !.positions = [p EXCEPT ![symbol].last_funding_ts = ts]]
        ELSE IF ts - p[symbol].last_funding_ts < FundingPeriod THEN none
        ELSE IF symbol \notin DOMAIN cache THEN none
        ELSE LET pay == funding_payment(p[symbol].qty, cache[symbol].mark, rate)
             IN  [positions |-> [p EXCEPT ![symbol].last_funding_ts = ts],
                  cumulative_funding |-> Add(cfund, pay),
                  paid |-> TRUE, payment |-> pay]

\* a liquidation check that leaves the unrealized P&L out of the equity
liquidation_due_without_unrealized(p, c, cfund, symbol, mark) ==
    /\ symbol \in DOMAIN p
    /\ p[symbol].qty # 0
    /\ Less(Add(c, cfund), Div(Mul(Mul(mark, AbsInt(p[symbol].qty)), mm_pct), 100))

\* _check_liquidation, lines 515-536: equity < mm * notional
liquidation_due(p, c, cfund, symbol, mark) ==
    /\ symbol \in DOMAIN p
    /\ p[symbol].qty # 0
    /\ LET equity   == Add(Add(c, unrealized_pl(p[symbol], mark)), cfund)
           notional == Mul(mark, AbsInt(p[symbol].qty))
       IN  Less(equity, Div(Mul(notional, mm_pct), 100))

\* _check_liquidation, line 545
liq_price(qty, mark) ==
    IF qty > 0 THEN Sub(mark, Bps(mark, liq_penalty_bps))
    ELSE Add(mark, Bps(mark, liq_penalty_bps))

\* _check_liquidation, lines 548-555: the forced order
liq_order(symbol, qty) ==
    Order(symbol, IF qty > 0 THEN "sell" ELSE "buy", AbsInt(qty), "market", NoPrice,
          "liq", DefaultLeverage)

\* _check_liquidation, line 561
liq_fee(qty, mark) == Bps(Mul(mark, AbsInt(qty)), liq_penalty_bps)

\* _check_liquidation: when the check fires it makes the task of the liquidating
\* fill (trigger number n + 1) and charges the liquidation fee
check_liquidation(p, c, cf, cfund, symbol, mark, n) ==
    IF ~liquidation_due(p, c, cfund, symbol, mark)
    THEN [due |-> FALSE, tasks |-> <<>>, cumulative_fees |-> cf, cash |-> c,
          fee |-> Num(0), qty |-> 0]
    ELSE LET qty == p[symbol].qty
             fee == liq_fee(qty, mark)
         IN  [due   |-> TRUE,
              tasks |-> <<[order |-> liq_order(symbol, qty),
                           fill_price |-> liq_price(qty, mark),
                           origin |-> "liq", trig |-> n + 1]>>,
              cumulative_fees |-> Sub(cf, fee),
              cash  |-> c,
              fee   |-> fee,
              qty   |-> qty]

\* ------------------------------------------------------------ account projector
RECURSIVE SumNum(_, _)
SumNum(f, S) ==
    IF S = {} THEN Num(0)
    ELSE LET x == CHOOSE y \in S : TRUE IN Add(f[x], SumNum(f, S \ {x}))

\* get_account_state, lines 105-122: the positions the loop keeps
reported(p, cache) == {s \in DOMAIN p : p[s].qty # 0 /\ s \in DOMAIN cache}

\* an equity that adds the fees, already folded into cash, a second time
account_equity_fees_twice(c, unrealized_total, cfund) ==
    Add(Add(Add(c, unrealized_total), cfund), cumulative_fees)

\* get_account_state, line 141
account_equity(c, unrealized_total, cfund) == Add(Add(c, unrealized_total), cfund)

\* get_account_state: the AccountState it returns
get_account_state(p, cache, c, cf, cfund) ==
    LET shown == reported(p, cache)
        upl   == [s \in shown |-> unrealized_pl(p[s], cache[s].mark)]
        unrealized_total == SumNum(upl, shown)
    IN  [equity        |-> account_equity(c, unrealized_total, cfund),
         cash          |-> c,
         realized_pl   |-> SumNum([s \in DOMAIN p |-> p[s].realized_pl], DOMAIN p),
         unrealized_pl |-> unrealized_total,
         fees          |-> cf,
         funding_net   |-> cfund,
         positions     |-> [s \in shown |->
                              [qty |-> p[s].qty, avg_entry |-> p[s].avg_entry,
                               unrealized_pl |-> upl[s],
                               leverage |-> p[s].leverage,
                               entry_time |-> p[s].entry_time]]]

\* ------------------------------------------------------------ steps
Empty == [s \in {} |-> 0]

\* history of a position: the fill that opened it from flat and, as long as only
\* closing fills at one price followed, what those fills realized, charged and
\* did to cash
NoCycle == [qty |-> 0, entry |-> Num(0), exit |-> NoPrice, closes |-> 0,
            realized |-> Num(0), fees |-> Num(0), cash |-> Num(0), left |-> 0]

\* history of the funding of a position: the tick time of its last payment, the
\* number of its payments, and the tick time of the first funding evaluation
\* since it was last opened from flat
NoFunding == [paid_at |-> NoTime, payments |-> 0, first_eval |-> NoTime]

\* on_market_data -> _accrue_funding at ts: an evaluation happens when the symbol
\* has an open position
funded_after_tick(h, p, symbol, paid, ts) ==
    IF symbol \notin DOMAIN p THEN h
    ELSE IF p[symbol].qty = 0 THEN h
    ELSE [paid_at    |-> IF paid THEN ts ELSE h.paid_at,
          payments   |-> IF paid THEN h.payments + 1 ELSE h.payments,
          first_eval |-> IF h.first_eval = NoTime THEN ts ELSE h.first_eval]

\* a fill that opens the position from flat starts a new series of evaluations
funded_after_fill(h, f) ==
    IF f.old_qty = 0 THEN [h EXCEPT !.first_eval = NoTime] ELSE h

\* the history of a position after a fill f of the order at the price, which
\* changed cash by dcash
cycle_after(c, order, price, f, dcash) ==
    LET delta == qty_signed(order)
    IN  IF f.old_qty = 0
        THEN [qty |-> delta, entry |-> price, exit |-> NoPrice, closes |-> 0,
              realized |-> f.realized_pnl, fees |-> f.fee, cash |-> dcash,
              left |-> delta]
        ELSE IF /\ c.qty # 0
                /\ f.old_qty = c.left
                /\ f.old_qty * delta < 0
                /\ AbsInt(delta) <= AbsInt(f.old_qty)
                /\ c.exit \in {NoPrice, price}
        THEN [c EXCEPT !.exit = price, !.closes = @ + 1,
                       !.realized = Add(@, f.realized_pnl),
                       !.fees = Add(@, f.fee), !.cash = Add(@, dcash),
                       !.left = f.old_qty + delta]
        ELSE NoCycle

NoAccount == [equity |-> Num(0), cash |-> Num(0), realized_pl |-> Num(0),
              unrealized_pl |-> Num(0), fees |-> Num(0), funding_net |-> Num(0),
              positions |-> Empty]

Idle == [busy |-> FALSE, client_id |-> "", symbol |-> "", mutated |-> FALSE]

NoResult == [of |-> "none", success |-> TRUE, client_id |-> "", error |-> "",
             mutated |-> FALSE]

\* what a step records about itself
Step(kind) ==
    [kind |-> kind, symbol |-> "", client_id |-> "", origin |-> "", trig |-> 0,
     price |-> Num(0), fee |-> Num(0), realized_pnl |-> Num(0), old_qty |-> 0,
     order |-> Order("", "", 0, "", NoPrice, "", 0),
     crossed |-> <<>>, paid |-> FALSE, payment |-> Num(0), liquidated |-> FALSE,
     liq_fee |-> Num(0), in_order |-> TRUE]

\* history of the orders accepted into open_orders, one entry each: the dict
\* holds at most one order per client_id, the one accepted last under it
Latest(log, client_id) ==
    LET I == {i \in 1..Len(log) : log[i].client_id = client_id}
    IN  IF I = {} THEN 0 ELSE CHOOSE i \in I : \A j \in I : j <= i

\* place_order, lines 186-194: the order takes the place of the resting order of
\* its client_id
log_placed(log, order) ==
    Append([i \in 1..Len(log) |->
               IF i = Latest(log, order.client_id) /\ log[i].state = "resting"
               THEN [log[i] EXCEPT !.state = "replaced"] ELSE log[i]],
           [client_id |-> order.client_id, order |-> SimOrder(order),
            state |-> "resting", trigs |-> {}, fills |-> 0])

\* cancel_order, lines 205-207: the order found under the client_id is deleted
log_cancelled(log, client_id) ==
    [i \in 1..Len(log) |->
        IF i = Latest(log, client_id) THEN [log[i] EXCEPT !.state = "cancelled"]
        ELSE log[i]]

\* _try_fill_limits, lines 421-445: the crossed orders get the fill tasks
\* numbered from n + 1
RECURSIVE log_crossed(_, _, _)
log_crossed(log, crossed, n) ==
    IF crossed = <<>> THEN log
    ELSE log_crossed([i \in 1..Len(log) |->
                         IF i = Latest(log, Head(crossed).client_id)
                         THEN [log[i] EXCEPT !.state = "crossed",
                                             !.trigs = @ \cup {n + 1}]
                         ELSE log[i]],
                     Tail(crossed), n + 1)

\* _execute_fill run by the fill task t
log_filled(log, t) ==
    [i \in 1..Len(log) |->
        IF t.origin = "limit" /\ t.trig \in log[i].trigs
        THEN [log[i] EXCEPT !.state = "filled", !.fills = @ + 1]
        ELSE log[i]]

\* no action of the model is being executed
NoAction == [cancellations |-> <<>>, actions |-> <<>>]

\* PerpSimAdapter.__init__ and Worker.__init__: the engine and the worker as
\* constructed
Constructed ==
    /\ cash = Num(InitialCash)
    /\ positions = Empty
    /\ open_orders = <<>>
    /\ cumulative_fees = Num(0)
    /\ cumulative_funding = Num(0)
    /\ market_cache = Empty
    /\ ema24 = Empty
    /\ ready = <<>>
    /\ persisting = 0
    /\ call = Idle
    /\ result = NoResult
    /\ account = NoAccount
    /\ now = 0
    /\ steps = 0
    /\ op = Step("init")
    /\ realizedPL_sum = Num(0)
    /\ fees_sum = Num(0)
    /\ liq_fees_sum = Num(0)
    /\ nTrig = 0
    /\ applied = [s \in Symbols \cup Untracked |-> 0]
    /\ cycle = [s \in Symbols \cup Untracked |-> NoCycle]
    /\ funded = [s \in Symbols \cup Untracked |-> NoFunding]
    /\ order_log = <<>>
    /\ feed = [running |-> TRUE, errors |-> 0]
    /\ markets = [symbols |-> <<>>, markets |-> <<>>]
    /\ used_client_ids = {}
    /\ pending_action = NoAction

Init == funding_mode \in FundingModes /\ Constructed

\* a crossing that schedules the fill of an order twice
RECURSIVE FillTasks_twice(_, _)
FillTasks_twice(crossed, n) ==
    IF crossed = <<>> THEN <<>>
    ELSE LET t == [order |-> limit_fill_order(Head(crossed)),
                   fill_price |-> Head(crossed).limit_price,
                   origin |-> "limit", trig |-> n + 1]
         IN  <<t, t>> \o FillTasks_twice(Tail(crossed), n + 1)

\* the fill tasks create_task makes for the crossed orders, numbered from n + 1
RECURSIVE FillTasks(_, _)
FillTasks(crossed, n) ==
    IF crossed = <<>> THEN <<>>
    ELSE <<[order |-> limit_fill_order(Head(crossed)),
            fill_price |-> Head(crossed).limit_price,
            origin |-> "limit", trig |-> n + 1]>>
         \o FillTasks(Tail(crossed), n + 1)

\* on_market_data(symbol, best_bid, best_ask, ts), called by the feed
Tick(symbol, quote, dt) ==
    LET ts      == now + dt
        bid     == Num(quote[1])
        ask     == Num(quote[2])
        rate    == calculate_funding_rate(funding_mode, ema24, symbol,
                                          DivSmall(Add(bid, ask), 2))
        info    == MarketInfo(bid, ask, rate)
        cache   == [s \in DOMAIN market_cache \cup {symbol} |->
                      IF s = symbol THEN info ELSE market_cache[s]]
        crossed == SelectSeq(open_orders, LAMBDA o : is_crossed(o, symbol, bid, ask))
        fund    == accrue_funding(positions, cumulative_funding, cache, symbol, rate, ts)
        tasks   == FillTasks(crossed, nTrig)
        liq     == check_liquidation(fund.positions, cash, cumulative_fees,
                                     fund.cumulative_funding, symbol, info.mark,
                                     nTrig + Len(crossed))
    IN  /\ steps < MaxSteps
        /\ ts <= MaxTime
        /\ Len(ready) + Len(tasks) + Len(liq.tasks) <= MaxReady
        /\ feed.running
        /\ steps' = steps + 1
        /\ now' = ts
        /\ market_cache' = cache
        /\ open_orders' = SelectSeq(open_orders,
                                    LAMBDA o : ~is_crossed(o, symbol, bid, ask))
        /\ ready' = ready \o tasks \o liq.tasks
        /\ positions' = fund.positions
        /\ cumulative_funding' = fund.cumulative_funding
        /\ cumulative_fees' = liq.cumulative_fees
        /\ cash' = liq.cash
        /\ ema24' = update_ema(ema24, symbol, info.mark)
        /\ nTrig' = nTrig + Len(tasks) + Len(liq.tasks)
        /\ liq_fees_sum' = Add(liq_fees_sum, liq.fee)
        /\ op' = [Step("tick") EXCEPT !.symbol = symbol, !.crossed = crossed,
                     !.paid = fund.paid, !.payment = fund.payment,
                     !.liquidated = liq.due, !.liq_fee = liq.fee,
                     !.old_qty = liq.qty, !.price = info.mark]
        /\ funded' = [funded EXCEPT ![symbol] = funded_after_tick(@, positions, symbol,
                                                                  fund.paid, ts)]
        /\ order_log' = log_crossed(order_log, crossed, nTrig)
        /\ UNCHANGED <<funding_mode, worker, feed, markets, persisting, call, result, account,
                       realizedPL_sum, fees_sum, applied, cycle>>

\* the largest and the smallest quantity the position of a symbol can reach
\* through the orders already accepted
RECURSIVE QtySum(_)
QtySum(orders) ==
    IF orders = <<>> THEN 0 ELSE Head(orders).qty + QtySum(Tail(orders))

Pending(symbol, side) ==
    QtySum(SelectSeq(open_orders, LAMBDA o : o.symbol = symbol /\ o.side = side))
    + QtySum(SelectSeq([i \in 1..Len(ready) |-> ready[i].order],
                       LAMBDA o : o.symbol = symbol /\ o.side = side))

Held(symbol) == IF symbol \in DOMAIN positions THEN positions[symbol].qty ELSE 0

Highest(symbol) == Held(symbol) + Pending(symbol, "buy")

Lowest(symbol) == Held(symbol) - Pending(symbol, "sell")

WithinExposure(order) ==
    IF order.side = "buy" THEN Highest(order.symbol) + order.qty <= MaxPos
    ELSE Lowest(order.symbol) - order.qty >= 0 - MaxPos

\* the engine's state, for comparing before and after a call
Engine(c, p, oo, cf, cfund, cache, ema) == <<c, p, oo, cf, cfund, cache, ema>>

\* place_order, lines 186-194: self.open_orders[client_id] = SimOrder(...); a dict
\* keeps the place of a key it already holds
put_order(oo, order) ==
    IF \E i \in 1..Len(oo) : oo[i].client_id = order.client_id
    THEN [i \in 1..Len(oo) |->
            IF oo[i].client_id = order.client_id THEN SimOrder(order) ELSE oo[i]]
    ELSE Append(oo, SimOrder(order))

\* a place_order that accepts an order for a symbol without a cache entry
PlaceNoMarket_accepting(order) ==
    /\ order.symbol \notin DOMAIN market_cache
    /\ open_orders' = Append(open_orders, SimOrder(order))
    /\ result' = [of |-> "place_order", success |-> TRUE,
                  client_id |-> order.client_id, error |-> "", mutated |-> TRUE]
    /\ op' = [Step("place_order") EXCEPT !.symbol = order.symbol, !.order = order,
                                         !.client_id = order.client_id]
    /\ order_log' = log_placed(order_log, order)
    /\ UNCHANGED <<cash, positions, cumulative_fees, cumulative_funding,
                   market_cache, ema24, ready, persisting, call, realizedPL_sum,
                   fees_sum, liq_fees_sum, nTrig, applied, cycle, funded>>

\* place_order, lines 161-167: no cache entry for the symbol
PlaceNoMarket(order) ==
    /\ order.symbol \notin DOMAIN market_cache
    /\ result' = [of |-> "place_order", success |-> FALSE,
                  client_id |-> order.client_id, error |-> "no market data",
                  mutated |-> FALSE]
    /\ op' = [Step("place_order") EXCEPT !.symbol = order.symbol, !.order = order,
                                         !.client_id = order.client_id]
    /\ UNCHANGED <<engine, ready, persisting, call, history>>

\* place_order, lines 169-174: a market order runs _execute_fill up to its await
PlaceMarket(order) ==
    /\ order.symbol \in DOMAIN market_cache
    /\ order.order_type = "market"
    /\ LET m     == market_cache[order.symbol]
           price == calculate_fill_price(order.side, m.best_bid, m.best_ask)
           f     == execute_fill(positions, cash, cumulative_fees, order, price, now)
       IN  /\ positions' = f.positions
           /\ cash' = f.cash
           /\ cumulative_fees' = f.cumulative_fees
           /\ realizedPL_sum' = Add(realizedPL_sum, f.realized_pnl)
           /\ fees_sum' = Add(fees_sum, f.fee)
           /\ nTrig' = nTrig + 1
           /\ applied' = [applied EXCEPT ![order.symbol] = nTrig + 1]
           /\ cycle' = [cycle EXCEPT ![order.symbol] =
                            cycle_after(@, order, price, f, Sub(f.cash, cash))]
           /\ funded' = [funded EXCEPT ![order.symbol] = funded_after_fill(@, f)]
           /\ call' = [busy |-> TRUE, client_id |-> order.client_id,
                       symbol |-> order.symbol,
                       mutated |-> Engine(f.cash, f.positions, open_orders,
                                          f.cumulative_fees, cumulative_funding,
                                          market_cache, ema24)
                                   # Engine(cash, positions, open_orders,
                                            cumulative_fees, cumulative_funding,
                                            market_cache, ema24)]
           /\ op' = [Step("place_order") EXCEPT
                        !.symbol = order.symbol, !.order = order,
                        !.client_id = order.client_id, !.origin = "market",
                        !.trig = nTrig + 1, !.price = price, !.fee = f.fee,
                        !.realized_pnl = f.realized_pnl, !.old_qty = f.old_qty,
                        !.in_order = (nTrig + 1 > applied[order.symbol])]
    /\ UNCHANGED <<open_orders, cumulative_funding, market_cache, ema24, ready,
                   persisting, result, liq_fees_sum, order_log>>

\* a place_order that forwards a limit order for filling at once when the cached
\* quote already crosses it
PlaceLimit_marketable(order) ==
    /\ order.symbol \in DOMAIN market_cache
    /\ order.order_type = "limit"
    /\ LET m == market_cache[order.symbol]
           crossing == /\ order.limit_price # NoPrice
                       /\ is_crossed(SimOrder(order), order.symbol,
                                     m.best_bid, m.best_ask)
       IN  /\ IF order.limit_price = NoPrice
              THEN /\ result' = [of |-> "place_order", success |-> FALSE,
                                 client_id |-> order.client_id,
                                 error |-> "limit price required",
                                 mutated |-> FALSE]
                   /\ UNCHANGED <<open_orders, ready, nTrig, order_log>>
              ELSE /\ result' = [of |-> "place_order", success |-> TRUE,
                                 client_id |-> order.client_id, error |-> "",
                                 mutated |-> TRUE]
                   /\ IF crossing
                      THEN /\ ready' = Append(ready,
                                  [order |-> order, fill_price |-> order.limit_price,
                                   origin |-> "limit", trig |-> nTrig + 1])
                           /\ nTrig' = nTrig + 1
                           /\ UNCHANGED <<open_orders, order_log>>
                      ELSE /\ open_orders' = put_order(open_orders, order)
                           /\ order_log' = log_placed(order_log, order)
                           /\ UNCHANGED <<ready, nTrig>>
    /\ op' = [Step("place_order") EXCEPT !.symbol = order.symbol, !.order = order,
                                         !.client_id = order.client_id]
    /\ UNCHANGED <<cash, positions, cumulative_fees, cumulative_funding,
                   market_cache, ema24, persisting, call, realizedPL_sum, fees_sum,
                   liq_fees_sum, applied, cycle, funded>>

\* place_order, lines 177-197: a limit order
PlaceLimit(order) ==
    /\ order.symbol \in DOMAIN market_cache
    /\ order.order_type = "limit"
    /\ IF order.limit_price = NoPrice
       THEN /\ result' = [of |-> "place_order", success |-> FALSE,
                          client_id |-> order.client_id,
                          error |-> "limit price required", mutated |-> FALSE]
            /\ UNCHANGED <<open_orders, order_log>>
       ELSE /\ open_orders' = put_order(open_orders, order)
            /\ order_log' = log_placed(order_log, order)
            /\ result' = [of |-> "place_order", success |-> TRUE,
                          client_id |-> order.client_id, error |-> "",
                          mutated |-> (put_order(open_orders, order) # open_orders)]
    /\ op' = [Step("place_order") EXCEPT !.symbol = order.symbol, !.order = order,
                                         !.client_id = order.client_id]
    /\ UNCHANGED <<cash, positions, cumulative_fees, cumulative_funding,
                   market_cache, ema24, ready, persisting, call, realizedPL_sum,
                   fees_sum, liq_fees_sum, nTrig, applied, cycle, funded>>

\* place_order(order), called by the worker; one call at a time
place_order(order) ==
    /\ steps < MaxSteps
    /\ ~call.busy
    /\ WithinExposure(order)
    /\ steps' = steps + 1
    /\ \/ PlaceNoMarket(order)
       \/ PlaceMarket(order)
       \/ PlaceLimit(order)
    /\ UNCHANGED <<funding_mode, feed, markets, account, now>>

\* place_order(order), called without the worker's bookkeeping of client ids
PlaceOrder(order) == place_order(order) /\ UNCHANGED worker

\* a cancel_order that also withdraws the pending fill of a crossed order
CancelOrder_withdrawing(client_id) ==
    /\ steps < MaxSteps
    /\ ~call.busy
    /\ steps' = steps + 1
    /\ LET found == \/ \E i \in 1..Len(open_orders) :
                           open_orders[i].client_id = client_id
                    \/ \E i \in 1..Len(ready) :
                           ready[i].order.client_id = client_id
       IN  /\ open_orders' = SelectSeq(open_orders, LAMBDA o : o.client_id # client_id)
           /\ ready' = SelectSeq(ready, LAMBDA t : t.order.client_id # client_id)
           /\ result' = [of |-> "cancel_order", success |-> found,
                         client_id |-> client_id,
                         error |-> IF found THEN "" ELSE "order not found",
                         mutated |-> found]
           /\ order_log' = IF found THEN log_cancelled(order_log, client_id)
                           ELSE order_log
    /\ op' = [Step("cancel_order") EXCEPT !.client_id = client_id]
    /\ UNCHANGED <<funding_mode, worker, feed, markets, cash, positions, cumulative_fees,
                   cumulative_funding, market_cache, ema24, persisting, call,
                   account, now, realizedPL_sum, fees_sum, liq_fees_sum, nTrig,
                   applied, cycle, funded>>

\* a cancel_order that empties the book when it finds the order
CancelOrder_clearing(client_id) ==
    /\ steps < MaxSteps
    /\ ~call.busy
    /\ steps' = steps + 1
    /\ LET found == \E i \in 1..Len(open_orders) : open_orders[i].client_id = client_id
       IN  /\ open_orders' = IF found THEN <<>> ELSE open_orders
           /\ result' = [of |-> "cancel_order", success |-> found,
                         client_id |-> client_id,
                         error |-> IF found THEN "" ELSE "order not found",
                         mutated |-> found]
           /\ order_log' = IF found THEN log_cancelled(order_log, client_id)
                           ELSE order_log
    /\ op' = [Step("cancel_order") EXCEPT !.client_id = client_id]
    /\ UNCHANGED <<funding_mode, worker, feed, markets, cash, positions, cumulative_fees,
                   cumulative_funding, market_cache, ema24, ready, persisting, call,
                   account, now, realizedPL_sum, fees_sum, liq_fees_sum, nTrig,
                   applied, cycle, funded>>

\* cancel_order(client_id)
cancel_order(client_id) ==
    /\ steps < MaxSteps
    /\ ~call.busy
    /\ steps' = steps + 1
    /\ LET found == \E i \in 1..Len(open_orders) : open_orders[i].client_id = client_id
       IN  /\ open_orders' = SelectSeq(open_orders, LAMBDA o : o.client_id # client_id)
           /\ result' = [of |-> "cancel_order", success |-> found,
                         client_id |-> client_id,
                         error |-> IF found THEN "" ELSE "order not found",
                         mutated |-> found]
           /\ order_log' = IF found THEN log_cancelled(order_log, client_id)
                           ELSE order_log
    /\ op' = [Step("cancel_order") EXCEPT !.client_id = client_id]
    /\ UNCHANGED <<funding_mode, feed, markets, cash, positions, cumulative_fees,
                   cumulative_funding, market_cache, ema24, ready, persisting, call,
                   account, now, realizedPL_sum, fees_sum, liq_fees_sum, nTrig,
                   applied, cycle, funded>>

\* cancel_order(client_id), called without the worker's bookkeeping of client ids
CancelOrder(client_id) == cancel_order(client_id) /\ UNCHANGED worker

\* get_account_state()
GetAccountState ==
    /\ steps < MaxSteps
    /\ ~call.busy
    /\ steps' = steps + 1
    /\ account' = get_account_state(positions, market_cache, cash, cumulative_fees,
                                    cumulative_funding)
    /\ op' = Step("get_account_state")
    /\ UNCHANGED <<funding_mode, worker, feed, markets, engine, ready, persisting, call, result, now,
                   history>>

\* a get_market_state that returns every cache entry, asked for or not
get_market_state_whole_cache(cache, symbols) ==
    LET all == CHOOSE q \in [1..Cardinality(DOMAIN cache) -> DOMAIN cache] :
                  \A s \in DOMAIN cache : \E i \in DOMAIN q : q[i] = s
    IN  [i \in DOMAIN all |-> [symbol |-> all[i], info |-> cache[all[i]]]]

\* get_market_state, line 97: the cache entries of the symbols asked for, in
\* the order of the request
get_market_state(cache, symbols) ==
    LET cached == SelectSeq(symbols, LAMBDA s : s \in DOMAIN cache)
    IN  [i \in 1..Len(cached) |-> [symbol |-> cached[i], info |-> cache[cached[i]]]]

\* the symbol lists the worker asks for
Requests == {<<"BTC-USD">>, <<"BTC-USD", "ETH-USD">>}

\* get_market_state(symbols)
GetMarketState(symbols) ==
    /\ steps < MaxSteps
    /\ ~call.busy
    /\ steps' = steps + 1
    /\ markets' = [symbols |-> symbols,
                   markets |-> get_market_state(market_cache, symbols)]
    /\ op' = Step("get_market_state")
    /\ UNCHANGED <<funding_mode, worker, feed, engine, ready, persisting, call, result,
                   account, now, history>>

\* the event loop starts the oldest fill task: _execute_fill up to its await
RunFillTask ==
    /\ ready # <<>>
    /\ persisting < MaxPersist
    /\ LET t == Head(ready)
           f == execute_fill(positions, cash, cumulative_fees, t.order,
                             t.fill_price, now)
       IN  /\ positions' = f.positions
           /\ cash' = f.cash
           /\ cumulative_fees' = f.cumulative_fees
           /\ realizedPL_sum' = Add(realizedPL_sum, f.realized_pnl)
           /\ fees_sum' = Add(fees_sum, f.fee)
           /\ applied' = [applied EXCEPT ![t.order.symbol] = t.trig]
           /\ cycle' = [cycle EXCEPT ![t.order.symbol] =
                            cycle_after(@, t.order, t.fill_price, f, Sub(f.cash, cash))]
           /\ funded' = [funded EXCEPT ![t.order.symbol] = funded_after_fill(@, f)]
           /\ order_log' = log_filled(order_log, t)
           /\ op' = [Step("fill_task") EXCEPT
                        !.symbol = t.order.symbol, !.order = t.order,
                        !.client_id = t.order.client_id, !.origin = t.origin,
                        !.trig = t.trig, !.price = t.fill_price, !.fee = f.fee,
                        !.realized_pnl = f.realized_pnl, !.old_qty = f.old_qty,
                        !.in_order = (t.trig > applied[t.order.symbol])]
    /\ ready' = Tail(ready)
    /\ persisting' = persisting + 1
    /\ UNCHANGED <<funding_mode, worker, feed, markets, open_orders, cumulative_funding, market_cache,
                   ema24, call, result, account, now, steps, liq_fees_sum, nTrig>>

EngineNow ==
    [cash |-> cash, positions |-> positions, open_orders |-> open_orders,
     cumulative_fees |-> cumulative_fees, cumulative_funding |-> cumulative_funding,
     market_cache |-> market_cache, ema24 |-> ema24]

SetEngine(e) ==
    /\ cash' = e.cash
    /\ positions' = e.positions
    /\ open_orders' = e.open_orders
    /\ cumulative_fees' = e.cumulative_fees
    /\ cumulative_funding' = e.cumulative_funding
    /\ market_cache' = e.market_cache
    /\ ema24' = e.ema24

\* an engine that undoes its ledger when insert_trade raises
after_insert_trade_rollback(e, raised) ==
    IF raised
    THEN [e EXCEPT !.cash = Num(InitialCash), !.cumulative_fees = Num(0),
                   !.positions = [s \in DOMAIN e.positions |->
                                    [e.positions[s] EXCEPT !.qty = 0]]]
    ELSE e

\* what the engine holds once db.insert_trade has returned or raised inside a
\* fill: after the await _execute_fill only logs, the except clause of place_order
\* only logs, and a task's exception is never retrieved
after_insert_trade(e, raised) == e

\* db.insert_trade returns (raised = FALSE) or raises inside a fill task
TaskInsertTrade(raised) ==
    /\ persisting > 0
    /\ persisting' = persisting - 1
    /\ SetEngine(after_insert_trade(EngineNow, raised))
    /\ op' = Step(IF raised THEN "task_insert_trade_raised" ELSE "task_insert_trade")
    /\ UNCHANGED <<funding_mode, worker, feed, markets, ready, call, result, account, now, steps, history>>

\* db.insert_trade returns or raises inside place_order, which then returns
\* PlacedOrder(success=True) (line 175) or, from its except clause (199-201),
\* PlacedOrder(success=False)
place_order_returns(raised) ==
    /\ call.busy
    /\ call' = Idle
    /\ SetEngine(after_insert_trade(EngineNow, raised))
    /\ result' = [of |-> "place_order", success |-> ~raised,
                  client_id |-> call.client_id,
                  error |-> IF raised THEN "insert_trade" ELSE "",
                  mutated |-> call.mutated]
    /\ op' = Step(IF raised THEN "insert_trade_raised" ELSE "insert_trade")
    /\ UNCHANGED <<funding_mode, feed, markets, ready, persisting, account, now, steps, history>>

\* place_order returns to a caller without the worker's bookkeeping of client ids
CallInsertTrade(raised) == place_order_returns(raised) /\ UNCHANGED worker

\* the orders the worker places: market orders of every side and size on BTC-USD,
\* a buy on ETH-USD and a reduce-only sell larger than any long position, limit
\* orders at 20000, one of them reduce-only, and one without a price
Orders ==
    {Order("BTC-USD", d, q, "market", NoPrice, "c1", IF d = "buy" THEN 5 ELSE 2) :
        d \in Sides, q \in Qtys}
    \cup {Order("ETH-USD", "buy", 1, "market", NoPrice, "c2", 5)}
    \cup {ReduceOnly(Order("BTC-USD", "sell", MaxPos, "market", NoPrice, "c2", 2))}
    \cup {Order("BTC-USD", "buy", 1, "limit", Num(20000), "c1", 5),
          Order("BTC-USD", "sell", 1, "limit", Num(20000), "c2", 2),
          ReduceOnly(Order("BTC-USD", "sell", 2, "limit", Num(20000), "c1", 5)),
          Order("ETH-USD", "sell", 1, "limit", NoPrice, "c2", 2)}

Next ==
    \/ \E t \in Ticks, dt \in TimeSteps : Tick(t[1], t[2], dt)
    \/ \E o \in Orders : PlaceOrder(o)
    \/ \E c \in ClientIds : CancelOrder(c)
    \/ GetAccountState
    \/ RunFillTask
    \/ \E raised \in BOOLEAN : TaskInsertTrade(raised)
    \/ \E raised \in BOOLEAN : CallInsertTrade(raised)

Spec == Init /\ [][Next]_vars

\* what a step of RunFillTask does to the event loop: the oldest ready task
\* starts and runs up to its await
TaskStarts ==
    /\ ready # <<>>
    /\ persisting < MaxPersist
    /\ ready' = Tail(ready)
    /\ persisting' = persisting + 1

\* what a step of TaskInsertTrade does to the event loop: the await of a task
\* ends
InsertTradeEnds ==
    /\ persisting > 0
    /\ persisting' = persisting - 1

\* the event loop runs every task that is ready, and an awaited insert_trade
\* returns or raises
LiveSpec ==
    /\ Init
    /\ [][Next]_vars
    /\ WF_<<ready, persisting>>(TaskStarts)
    /\ WF_persisting(InsertTradeEnds)

\* _close_position, lines 186-199: a reduce-only market order on the closing
\* side for the whole quantity of the snapshot; its client_id is a fresh uuid
close_order(symbol, current_qty) ==
    ReduceOnly(Order(symbol, IF current_qty > 0 THEN "sell" ELSE "buy",
                     AbsInt(current_qty), "market", NoPrice, "close",
                     DefaultLeverage))

\* execute_position_decisions with a "close" decision for the symbol, lines
\* 64-83: current_qty is the quantity in obs.account.positions, the account
\* state that build_observation fetched before the model was asked; the
\* observation is used up with the cycle
ClosePosition(symbol) ==
    /\ ~call.busy
    /\ symbol \in DOMAIN account.positions
    /\ account.positions[symbol].qty # 0
    /\ LET order == close_order(symbol, account.positions[symbol].qty)
       IN  /\ WithinExposure(order)
           /\ \/ PlaceNoMarket(order)
              \/ PlaceMarket(order)
    /\ account' = NoAccount
    /\ UNCHANGED <<funding_mode, worker, feed, markets, now, steps>>

\* the steps of a worker whose cycle ends with a "close" decision
NextClose ==
    \/ Next
    \/ \E symbol \in Symbols : ClosePosition(symbol)

CloseSpec == Init /\ [][NextClose]_vars

\* the ids f"{original}-{uuid4().hex[:8]}" that line 159 can make of an id
Suffixed(original) ==
    IF original = "c1" THEN {"c1-a", "c1-b", "c1-c", "c1-d"}
    ELSE {"c2-a", "c2-b", "c2-c", "c2-d"}

\* a normalization that only keeps the ids of one action apart
RECURSIVE normalize_within_action(_, _, _)
normalize_within_action(actions, seen_ids, used) ==
    IF actions = <<>> THEN <<>>
    ELSE LET original == Head(actions).client_id
             actual   == IF original \in seen_ids
                         THEN CHOOSE a \in Suffixed(original) : a \notin seen_ids
                         ELSE original
         IN  <<[Head(actions) EXCEPT !.client_id = actual]>>
             \o normalize_within_action(Tail(actions), seen_ids \cup {actual}, used)

\* _normalize_action_client_ids, lines 154-162: an id that was seen in this
\* action or is in used_client_ids gets a suffix until it is neither
RECURSIVE normalize_action_client_ids(_, _, _)
normalize_action_client_ids(actions, seen_ids, used) ==
    IF actions = <<>> THEN <<>>
    ELSE LET original == Head(actions).client_id
             taken    == seen_ids \cup used
             actual   == IF original \in taken
                         THEN CHOOSE a \in Suffixed(original) : a \notin taken
                         ELSE original
         IN  <<[Head(actions) EXCEPT !.client_id = actual]>>
             \o normalize_action_client_ids(Tail(actions), seen_ids \cup {actual},
                                            used)

\* _register_client_id, line 193
register_client_id(used, actual_id) == used \cup {actual_id}

\* _release_client_id, line 198
release_client_id(used, actual_id) == used \ {actual_id}

\* the orders of the model's actions, built by _execute_via_adapter (430-439)
\* without a leverage
ActionOrders ==
    [buy    |-> Order("BTC-USD", "buy", 1, "limit", Num(20000), "c1", DefaultLeverage),
     sell   |-> Order("BTC-USD", "sell", 1, "limit", Num(20000), "c1", DefaultLeverage),
     market |-> Order("BTC-USD", "buy", 1, "market", NoPrice, "c1", DefaultLeverage)]

\* the actions of the model: orders under the same client_id, in one action and
\* in actions that follow each other, and cancellations under whatever id
\* _resolve_client_id makes of theirs
Actions ==
    {[cancellations |-> cs, actions |-> as] :
        cs \in {<<>>, <<"c1">>, <<"c1-a">>},
        as \in {<<ActionOrders.buy>>, <<ActionOrders.sell>>,
                <<ActionOrders.buy, ActionOrders.sell>>, <<ActionOrders.market>>}}

\* run_cycle, line 349: the action of the model is normalized
Normalize(action) ==
    /\ pending_action = NoAction
    /\ ~call.busy
    /\ steps < MaxSteps
    /\ pending_action' =
          [cancellations |-> action.cancellations,
           actions |-> normalize_action_client_ids(action.actions, {},
                                                   used_client_ids)]
    /\ op' = Step("normalize")
    /\ UNCHANGED <<funding_mode, feed, markets, engine, ready, persisting, call,
                   result, account, now, steps, history, used_client_ids>>

\* _execute_via_adapter, lines 415-421: the next cancellation
ExecuteCancel ==
    /\ pending_action.cancellations # <<>>
    /\ LET client_id == Head(pending_action.cancellations)
       IN  /\ cancel_order(client_id)
           /\ used_client_ids' = IF result'.success
                                  THEN release_client_id(used_client_ids, client_id)
                                  ELSE used_client_ids
    /\ pending_action' = [pending_action EXCEPT !.cancellations = Tail(@)]

\* _execute_via_adapter, lines 424-446: the next order; place_order returns at
\* once unless a market order fills
ExecutePlace ==
    /\ pending_action.cancellations = <<>>
    /\ pending_action.actions # <<>>
    /\ LET order == Head(pending_action.actions)
       IN  /\ place_order(order)
           /\ used_client_ids' =
                 IF call'.busy THEN used_client_ids
                 ELSE IF result'.success
                      THEN register_client_id(used_client_ids, order.client_id)
                      ELSE release_client_id(used_client_ids, order.client_id)
    /\ pending_action' = [pending_action EXCEPT !.actions = Tail(@)]

\* _execute_via_adapter, lines 441-446: place_order returns from a market order
ExecuteReturns(raised) ==
    /\ place_order_returns(raised)
    /\ used_client_ids' =
          IF raised THEN release_client_id(used_client_ids, call.client_id)
          ELSE register_client_id(used_client_ids, call.client_id)
    /\ UNCHANGED pending_action

\* the steps of a worker that executes the model's actions through
\* _execute_via_adapter
NextWorker ==
    \/ \E t \in Ticks, dt \in TimeSteps : Tick(t[1], t[2], dt)
    \/ \E action \in Actions : Normalize(action)
    \/ ExecuteCancel
    \/ ExecutePlace
    \/ \E raised \in BOOLEAN : ExecuteReturns(raised)
    \/ RunFillTask
    \/ \E raised \in BOOLEAN : TaskInsertTrade(raised)

WorkerSpec == Init /\ [][NextWorker]_vars

\* the funding modes with a rate of zero: "A", and the stub "C"
ZeroModes == {"A", "C"}

InitZero == funding_mode \in ZeroModes /\ Constructed

\* the engine configured with funding mode A or C
SpecZero == InitZero /\ [][Next]_vars

\* a message loop that an error in a handler brings to its end
feed_after_error_stopped(fd) == [running |-> FALSE, errors |-> fd.errors + 1]

\* CoinbaseWebSocket.start, lines 93-99: an exception of _handle_message is
\* logged and the loop takes the next message
feed_after_error(fd) == [fd EXCEPT !.errors = @ + 1]

\* on_market_data raises after `done` of its steps (crossing, funding,
\* liquidation): on entry to the next step or, with done = 3, when the
\* liquidation that fired logs to the chat (line 565); the exception passes
\* through _on_market_tick and _handle_message to the message loop
TickRaises(symbol, quote, dt, done) ==
    LET ts      == now + dt
        bid     == Num(quote[1])
        ask     == Num(quote[2])
        rate    == calculate_funding_rate(funding_mode, ema24, symbol,
                                          DivSmall(Add(bid, ask), 2))
        info    == MarketInfo(bid, ask, rate)
        cache   == [s \in DOMAIN market_cache \cup {symbol} |->
                      IF s = symbol THEN info ELSE market_cache[s]]
        crossed == IF done >= 1
                   THEN SelectSeq(open_orders,
                                  LAMBDA o : is_crossed(o, symbol, bid, ask))
                   ELSE <<>>
        fund    == IF done >= 2
                   THEN accrue_funding(positions, cumulative_funding, cache, symbol,
                                       rate, ts)
                   ELSE [positions |-> positions,
                         cumulative_funding |-> cumulative_funding,
                         paid |-> FALSE, payment |-> Num(0)]
        tasks   == FillTasks(crossed, nTrig)
        liq     == check_liquidation(fund.positions, cash, cumulative_fees,
                                     fund.cumulative_funding, symbol, info.mark,
                                     nTrig + Len(crossed))
    IN  /\ steps < MaxSteps
        /\ ts <= MaxTime
        /\ Len(ready) + Len(tasks) + Len(liq.tasks) <= MaxReady
        /\ feed.running
        /\ feed.errors < MaxErrors
        /\ done = 3 => liq.due
        /\ steps' = steps + 1
        /\ now' = ts
        /\ market_cache' = cache
        /\ open_orders' = IF done >= 1
                          THEN SelectSeq(open_orders,
                                         LAMBDA o : ~is_crossed(o, symbol, bid, ask))
                          ELSE open_orders
        /\ ready' = ready \o tasks \o (IF done = 3 THEN liq.tasks ELSE <<>>)
        /\ positions' = fund.positions
        /\ cumulative_funding' = fund.cumulative_funding
        /\ cumulative_fees' = IF done = 3 THEN liq.cumulative_fees ELSE cumulative_fees
        /\ nTrig' = nTrig + Len(tasks) + (IF done = 3 THEN Len(liq.tasks) ELSE 0)
        /\ liq_fees_sum' = IF done = 3 THEN Add(liq_fees_sum, liq.fee) ELSE liq_fees_sum
        /\ funded' = IF done >= 2
                     THEN [funded EXCEPT ![symbol] =
                              funded_after_tick(@, positions, symbol, fund.paid, ts)]
                     ELSE funded
        /\ order_log' = log_crossed(order_log, crossed, nTrig)
        /\ feed' = feed_after_error(feed)
        /\ op' = [Step("tick_raised") EXCEPT !.symbol = symbol, !.crossed = crossed,
                     !.paid = fund.paid, !.payment = fund.payment,
                     !.liquidated = (done = 3), !.price = info.mark]
        /\ UNCHANGED <<funding_mode, worker, markets, cash, ema24, persisting, call, result, account,
                       realizedPL_sum, fees_sum, applied, cycle>>

\* an order for the product without a subscription
UntrackedOrders == {Order(u, "buy", 1, "market", NoPrice, "c2", 5) : u \in Untracked}

\* the steps when a ticker message for a product without a subscription reaches
\* the engine
NextUntracked ==
    \/ Next
    \/ \E u \in Untracked, dt \in TimeSteps : Tick(u, High, dt)
    \/ \E o \in UntrackedOrders : PlaceOrder(o)

UntrackedSpec == Init /\ [][NextUntracked]_vars

\* the ticker messages whose handling may raise
FaultyTicks == {<<"BTC-USD", Low>>, <<"ETH-USD", High>>}

\* a limit order priced through both quotes of its symbol
DeepOrders == {Order("BTC-USD", "buy", 1, "limit", Num(30000), "c2", 5)}

\* the steps of a worker that also places a limit order through the market
NextDeep ==
    \/ Next
    \/ \E o \in DeepOrders : PlaceOrder(o)

DeepSpec == Init /\ [][NextDeep]_vars

\* the steps of a worker that also reads the market state
NextReads ==
    \/ Next
    \/ \E symbols \in Requests : GetMarketState(symbols)

ReadsSpec == Init /\ [][NextReads]_vars

\* the steps when the handling of a ticker message may raise
NextFaulty ==
    \/ Next
    \/ \E t \in FaultyTicks, dt \in TimeSteps, done \in 0..3 :
          TickRaises(t[1], t[2], dt, done)

FaultySpec == Init /\ [][NextFaulty]_vars

\* ------------------------------------------------------------ properties
\* the step just taken applied a fill (_execute_fill up to its await)
IsFill == op.origin # ""

\* the sum of every position's realized_pl
RealizedOnBooks ==
    SumNum([s \in DOMAIN positions |-> positions[s].realized_pl], DOMAIN positions)

\* C1, first form: cash is the initial cash plus the realized P&L of all fills so
\* far less their fees
C1_CashIsRealizedLessFees ==
    cash = Sub(Add(Num(InitialCash), realizedPL_sum), fees_sum)

\* C1: after each fill, cash = 10000 + the sum of every position's realized_pl
\* + cumulative_fees
C1_CashConservation ==
    IsFill => cash = Add(Add(Num(InitialCash), RealizedOnBooks), cumulative_fees)

\* a liquidating fill has been applied after a liquidation fee was charged
C1_AfterLiquidation ==
    /\ IsFill
    /\ op.origin = "liq"
    /\ ~IsZero(liq_fees_sum)

\* the positions that are open and have a cached mark
MarkedPositions ==
    {s \in Symbols : /\ s \in DOMAIN positions
                      /\ positions[s].qty # 0
                      /\ s \in DOMAIN market_cache}

\* signed quantity times (mark - average entry)
MarkToMarket(s) ==
    Mul(Sub(market_cache[s].mark, positions[s].avg_entry), positions[s].qty)

\* C2: the equity get_account_state returns is cash + the unrealized P&L of the
\* open positions with a cached mark + cumulative_funding, and nothing else
C2_Equity ==
    op.kind = "get_account_state" =>
        account.equity =
            Add(Add(cash, SumNum([s \in MarkedPositions |-> MarkToMarket(s)],
                                 MarkedPositions)),
                cumulative_funding)

\* an account read with an open position off its entry price, fees paid and
\* funding accrued
C2_ReadWithOpenPosition ==
    /\ op.kind = "get_account_state"
    /\ \E s \in MarkedPositions : ~IsZero(MarkToMarket(s))
    /\ ~IsZero(cumulative_fees)
    /\ ~IsZero(cumulative_funding)

\* the liquidation check of the tick just processed fired
LiquidationFired == op.kind = "tick" /\ op.liquidated

\* C3: a liquidation charges a strictly positive penalty to cumulative_fees, and
\* the liquidating fill leaves the position of its symbol at exactly qty = 0,
\* whatever ran between the check and the fill
C3_LiquidationFlattens ==
    /\ LiquidationFired => Less(Num(0), op.liq_fee)
    /\ op.origin = "liq" => positions[op.symbol].qty = 0

\* a liquidating fill has been applied
C3_LiquidatingFillApplied == op.origin = "liq"

\* C4: a liquidation that fires debits its fee, |qty| * mark * liq_penalty_bps /
\* 10000, from cumulative_fees and from cash alike
C4_LiquidationFeeDebited ==
    [][(op'.kind = "tick" /\ op'.liquidated) =>
          /\ op'.liq_fee = Div(Mul(Mul(op'.price, AbsInt(op'.old_qty)),
                                   liq_penalty_bps), 10000)
          /\ cumulative_fees' = Sub(cumulative_fees, op'.liq_fee)
          /\ cash' = Sub(cash, op'.liq_fee)]_vars

\* a liquidation has just charged its fee
C4_LiquidationCharged == LiquidationFired /\ Less(Num(0), op.liq_fee)

\* the realized_pl on the books of a symbol
RealizedOf(p, s) == IF s \in DOMAIN p THEN p[s].realized_pl ELSE Num(0)

\* C5: every fill is one uninterrupted read-modify-write: it takes the old
\* quantity from the state it starts in and leaves qty, realized_pl,
\* cumulative_fees and cash all updated and the other positions untouched,
\* also while earlier fills are suspended in insert_trade
C5_FillsAtomic ==
    [][op'.origin # "" =>
          /\ op'.old_qty = Held(op'.symbol)
          /\ positions'[op'.symbol].qty = Held(op'.symbol) + qty_signed(op'.order)
          /\ positions'[op'.symbol].realized_pl
                = Add(RealizedOf(positions, op'.symbol), op'.realized_pnl)
          /\ cumulative_fees' = Sub(cumulative_fees, op'.fee)
          /\ cash' = Add(Sub(cash, op'.fee), op'.realized_pnl)
          /\ \A t \in DOMAIN positions \ {op'.symbol} : positions'[t] = positions[t]
      ]_vars

\* a fill task has changed a position while the fill of a market order for the
\* same symbol is suspended in insert_trade
C5_FillDuringPersistence ==
    /\ op.kind = "fill_task"
    /\ call.busy
    /\ call.symbol = op.symbol
    /\ op.old_qty # 0

\* C6: when a tick has been processed, the fills of the resting orders it crossed
\* have been applied, so that its funding accrual and liquidation check came
\* after them and nothing of the tick is left for later
C6_TickOrder ==
    op.kind = "tick" =>
        \A i \in 1..Len(ready) :
            ~(ready[i].origin = "limit" /\ ready[i].order.symbol = op.symbol)

\* a tick has crossed a resting order
C6_TickCrossed == op.kind = "tick" /\ op.crossed # <<>>

\* C7: every fill is applied after all fills of its symbol triggered before it
C7_TriggerOrder == IsFill => op.in_order

\* a fill applied while an earlier-triggered fill task is still waiting
C7_FillOvertakes ==
    /\ op.origin = "market"
    /\ \E i \in 1..Len(ready) :
          ready[i].order.symbol = op.symbol /\ ready[i].trig < op.trig

\* the price a market order must get: the ask raised, or the bid lowered, by
\* slippage_bps parts in 10000
MarketPrice(order) ==
    LET m == market_cache[order.symbol]
    IN  IF order.side = "buy"
        THEN Div(Mul(m.best_ask, 10000 + slippage_bps), 10000)
        ELSE Div(Mul(m.best_bid, 10000 - slippage_bps), 10000)

\* the step is place_order of a market order for a symbol with a cache entry
MarketPlaced ==
    /\ op'.kind = "place_order"
    /\ op'.order.order_type = "market"
    /\ op'.symbol \in DOMAIN market_cache

\* C8: place_order of a market order applies exactly one fill within the call, at
\* the ask plus slippage for a buy and the bid less slippage for a sell of the
\* current cache entry; nothing is deferred and nothing rests in the book; and
\* the return of the call changes nothing more
C8_MarketFillsInCall ==
    [][/\ MarketPlaced =>
            /\ op'.price = MarketPrice(op'.order)
            /\ positions'[op'.symbol].qty = Held(op'.symbol) + qty_signed(op'.order)
            /\ Held(op'.symbol) = 0 =>
                  /\ positions'[op'.symbol].avg_entry = MarketPrice(op'.order)
                  /\ cash' = Sub(cash, Div(Mul(Mul(MarketPrice(op'.order),
                                                   op'.order.qty), fee_bps), 10000))
            /\ open_orders' = open_orders
            /\ ready' = ready
            /\ call'.busy
       /\ op'.kind = "insert_trade" =>
            /\ result'.of = "place_order" /\ result'.success
            /\ positions' = positions /\ cash' = cash /\ open_orders' = open_orders
      ]_vars

\* place_order of a market order has returned success with its fill on the books
C8_MarketOrderReturned ==
    /\ op.kind = "insert_trade"
    /\ result.success
    /\ result.mutated
    /\ \E s \in DOMAIN positions : positions[s].qty # 0

\* C9: a place_order or cancel_order that returns success = false has changed
\* nothing of the engine
C9_FailedCallChangesNothing ==
    (result.of \in {"place_order", "cancel_order"} /\ ~result.success)
        => ~result.mutated

\* a call has returned a failed result
C9_CallFailed == result.of \in {"place_order", "cancel_order"} /\ ~result.success

\* the step is insert_trade raising inside a fill
InsertTradeRaised ==
    op'.kind \in {"insert_trade_raised", "task_insert_trade_raised"}

\* C10: when insert_trade raises inside a fill, nothing is rolled back: the
\* positions, cash and cumulative_fees stay as the fill left them
C10_NoRollback ==
    [][InsertTradeRaised =>
          /\ positions' = positions
          /\ cash' = cash
          /\ cumulative_fees' = cumulative_fees]_vars

\* insert_trade has raised and the position its fill opened is still on the books
C10_RaisedWithFillKept ==
    /\ op.kind \in {"insert_trade_raised", "task_insert_trade_raised"}
    /\ \E s \in DOMAIN positions : positions[s].qty # 0
    /\ ~IsZero(cumulative_fees)

\* the liquidation fee is |qty| * mark * liq_penalty_bps / 10000 at check time
LiqFeeAmount ==
    LiquidationFired =>
        op.liq_fee = Div(Mul(Mul(op.price, AbsInt(op.old_qty)), liq_penalty_bps), 10000)

\* the order is one place_order must reject: no cache entry for its symbol, or a
\* limit order without a price
Rejected(order) ==
    \/ order.symbol \notin DOMAIN market_cache
    \/ order.order_type = "limit" /\ order.limit_price = NoPrice

\* C11: place_order of an order for a symbol without a cache entry, or of a limit
\* order without a price, returns success = false at once and changes nothing:
\* no resting order, no fill, no pending fill
C11_Rejections ==
    [][(op'.kind = "place_order" /\ Rejected(op'.order)) =>
          /\ result'.of = "place_order"
          /\ ~result'.success
          /\ result'.client_id = op'.order.client_id
          /\ engine' = engine
          /\ ready' = ready
          /\ persisting' = persisting
          /\ ~call'.busy]_vars

\* a limit order without a price has been rejected for a symbol that has a cache
\* entry, with a position and fees already on the books
C11_LimitWithoutPriceRejected ==
    /\ op.kind = "place_order"
    /\ op.order.order_type = "limit"
    /\ op.order.limit_price = NoPrice
    /\ op.symbol \in DOMAIN market_cache
    /\ ~result.success
    /\ ~IsZero(cumulative_fees)

\* the resting orders, as a set
Book(oo) == {oo[i] : i \in 1..Len(oo)}

\* the client ids in the book
BookIds(oo) == {oo[i].client_id : i \in 1..Len(oo)}

\* C12: cancel_order(id) takes exactly the resting order with that client_id out
\* of the book and reports success; when no resting order has the id it reports
\* "order not found" and the book is as before; positions, account scalars and
\* pending fills are untouched either way
C12_CancelExactlyOne ==
    [][op'.kind = "cancel_order" =>
          /\ result'.of = "cancel_order"
          /\ result'.client_id = op'.client_id
          /\ IF op'.client_id \in BookIds(open_orders)
             THEN /\ result'.success
                  /\ Book(open_orders') =
                        {o \in Book(open_orders) : o.client_id # op'.client_id}
                  /\ Len(open_orders') = Len(open_orders) - 1
             ELSE /\ ~result'.success
                  /\ result'.error = "order not found"
                  /\ open_orders' = open_orders
          /\ <<cash, positions, cumulative_fees, cumulative_funding, market_cache,
               ema24>>' = <<cash, positions, cumulative_fees, cumulative_funding,
                            market_cache, ema24>>
          /\ ready' = ready]_vars

\* a cancel has succeeded and left another order resting
C12_CanceledOneOfTwo ==
    /\ op.kind = "cancel_order"
    /\ result.success
    /\ open_orders # <<>>

\* a cancel of the id of a market order that has filled: not found
C12_CancelOfFilledMarketOrder ==
    /\ op.kind = "cancel_order"
    /\ ~result.success
    /\ \E s \in DOMAIN positions : positions[s].qty # 0

\* the client ids of the crossed orders whose fills wait in the event loop
InFlightIds(tasks) ==
    {tasks[i].order.client_id : i \in {j \in 1..Len(tasks) : tasks[j].origin = "limit"}}

\* C13: a tick that finds a resting order crossed takes it out of the book and
\* leaves its fill waiting; a later cancel_order for it, arriving before the fill
\* has been applied, returns "order not found" and leaves the fill waiting, to
\* be applied to the position
C13_InFlightNotCancelable ==
    [][/\ op'.kind = "tick" =>
            \A i \in 1..Len(op'.crossed) :
                /\ op'.crossed[i].client_id \notin BookIds(open_orders')
                /\ op'.crossed[i].client_id \in InFlightIds(ready')
       /\ op'.kind = "cancel_order" =>
            /\ ready' = ready
            /\ (/\ op'.client_id \in InFlightIds(ready)
                /\ op'.client_id \notin BookIds(open_orders)) =>
                    /\ ~result'.success
                    /\ result'.error = "order not found"
                    /\ engine' = engine
      ]_vars

\* the fill of a crossed order has been applied to the position after
\* cancel_order for its client_id had returned not-found
C13_FilledAfterCancel ==
    /\ op.kind = "fill_task"
    /\ op.origin = "limit"
    /\ result.of = "cancel_order"
    /\ result.client_id = op.client_id
    /\ ~result.success
    /\ positions[op.symbol].qty = op.old_qty + qty_signed(op.order)

\* the book holds one record per client_id
UniqueIds(oo) == Cardinality(BookIds(oo)) = Len(oo)

\* C14: a resting order stays in the book, unchanged, until a tick crosses it or
\* a cancel_order for its client_id succeeds; no other step, a later place_order
\* included, removes or replaces it; and no two records share a client_id
C14_RestingOrderPersists ==
    [][/\ \A o \in Book(open_orders) :
            \/ o \in Book(open_orders')
            \/ op'.kind = "tick" /\ o \in Book(op'.crossed)
            \/ /\ op'.kind = "cancel_order"
               /\ op'.client_id = o.client_id
               /\ result'.success
       /\ UniqueIds(open_orders')]_vars

\* the book never holds two records with the same client_id
UniqueClientIds == UniqueIds(open_orders)

\* a place_order has succeeded while another order was resting
C14_PlacedWithOrderResting ==
    /\ op.kind = "place_order"
    /\ op.order.order_type = "limit"
    /\ result.success
    /\ \E o \in Book(open_orders) : o.client_id # op.client_id

\* the step is place_order of a limit order with a price, for a symbol with a
\* cache entry
LimitPlaced ==
    /\ op'.kind = "place_order"
    /\ op'.order.order_type = "limit"
    /\ op'.order.limit_price # NoPrice
    /\ op'.symbol \in DOMAIN market_cache

\* the fill tasks of crossed orders
LimitTasks(tasks) == {tasks[i] : i \in {j \in 1..Len(tasks) : tasks[j].origin = "limit"}}

\* C15: placing a limit order with a price only puts it into the book and
\* reports success: positions, cash, cumulative_fees and cumulative_funding stay
\* as they are and no fill is started, also when the cached quote already
\* crosses the price; the fill of a resting order is started only by a tick for
\* its symbol
C15_LimitOnlyRests ==
    [][/\ LimitPlaced =>
            /\ result'.success
            /\ SimOrder(op'.order) \in Book(open_orders')
            /\ <<positions, cash, cumulative_fees, cumulative_funding>>'
                  = <<positions, cash, cumulative_fees, cumulative_funding>>
            /\ ready' = ready
            /\ persisting' = persisting
            /\ ~call'.busy
       /\ \A t \in LimitTasks(ready') \ LimitTasks(ready) :
            op'.kind = "tick" /\ op'.symbol = t.order.symbol
      ]_vars

\* a limit order has been placed at a price the cached quote already crosses,
\* with a position on the books, and it rests
C15_CrossingLimitRests ==
    /\ op.kind = "place_order"
    /\ op.order.order_type = "limit"
    /\ result.success
    /\ op.symbol \in DOMAIN positions
    /\ positions[op.symbol].qty # 0
    /\ \E o \in Book(open_orders) :
          /\ o.client_id = op.client_id
          /\ is_crossed(o, op.symbol, market_cache[op.symbol].best_bid,
                        market_cache[op.symbol].best_ask)

\* the average entry on the books of a symbol
EntryOf(p, s) == IF s \in DOMAIN p THEN p[s].avg_entry ELSE Num(0)

\* the realized P&L a fill of signed quantity delta at a price must book against
\* a position of old quantity and average entry avg
Realized(old, avg, delta, price) ==
    LET closeQty == IF AbsInt(delta) < AbsInt(old) THEN AbsInt(delta) ELSE AbsInt(old)
    IN  IF old * delta >= 0 THEN Num(0)
        ELSE IF old > 0 THEN Mul(Sub(price, avg), closeQty)
        ELSE Mul(Sub(avg, price), closeQty)

\* the realized P&L the fill of the step must book
RealizedOfStep ==
    Realized(Held(op'.symbol), EntryOf(positions, op'.symbol), qty_signed(op'.order),
             op'.price)

\* the fee of the fill of the step: |qty| * price * fee_bps / 10000
FeeOfStep == Div(Mul(Mul(op'.price, op'.order.qty), fee_bps), 10000)

\* C16: a fill against the position realizes closeQty * (price - avg_entry) for a
\* long and closeQty * (avg_entry - price) for a short, closeQty being the smaller
\* of |delta| and |old|, and adds exactly that to the position's realized_pl and
\* to cash; an opening or adding fill realizes 0
C16_RealizedOnClose ==
    [][op'.origin # "" =>
          /\ positions'[op'.symbol].realized_pl
                = Add(RealizedOf(positions, op'.symbol), RealizedOfStep)
          /\ cash' = Add(Sub(cash, FeeOfStep), RealizedOfStep)]_vars

\* a fill has reversed a position and realized a P&L on the closed part
C16_ReversalRealized ==
    /\ IsFill
    /\ op.old_qty * qty_signed(op.order) < 0
    /\ AbsInt(op.old_qty) < op.order.qty
    /\ ~IsZero(positions[op.symbol].realized_pl)

\* the order as the caller placed it: the fill of a resting order carries the
\* defaults for leverage and reduce_only
AsPlaced(order) ==
    CHOOSE o \in Orders :
        [o EXCEPT !.leverage = 0, !.reduce_only = FALSE]
            = [order EXCEPT !.leverage = 0, !.reduce_only = FALSE]

\* the leverage the caller gave the order when placing it
PlacedLeverage(order) == AsPlaced(order).leverage

\* the fill of the step takes the position through zero to the other side
Reversing == Held(op'.symbol) * (Held(op'.symbol) + qty_signed(op'.order)) < 0

\* C17: a reversing fill, of a market order or of a triggered resting order,
\* leaves qty = old + delta, avg_entry at the fill price, the leverage of the
\* order as the caller placed it, and entry_time at the time of the fill
C17_Reversal ==
    [][(op'.origin \in {"market", "limit"} /\ Reversing) =>
          /\ positions'[op'.symbol].qty = Held(op'.symbol) + qty_signed(op'.order)
          /\ positions'[op'.symbol].avg_entry = op'.price
          /\ positions'[op'.symbol].leverage = PlacedLeverage(op'.order)
          /\ positions'[op'.symbol].entry_time = now']_vars

\* the fill of a resting order has reversed a position
C17_LimitReversed ==
    /\ op.origin = "limit"
    /\ op.old_qty * (op.old_qty + qty_signed(op.order)) < 0

\* C18: a position with qty = 0 is flat: avg_entry = 0 and entry_time = None,
\* also after a fill has closed it
C18_FlatIsReset ==
    \A s \in DOMAIN positions :
        positions[s].qty = 0 =>
            /\ positions[s].avg_entry = Num(0)
            /\ positions[s].entry_time = NoTime

\* a fill has brought a position to qty = 0
C18_FillClosedPosition ==
    /\ IsFill
    /\ op.old_qty # 0
    /\ positions[op.symbol].qty = 0

\* the fill of the step adds to an open position in its direction
Adding == Held(op'.symbol) * qty_signed(op'.order) > 0

\* C19: an adding fill of q2 @ p2 on a position of q1 @ p1 leaves qty = q1 + q2
\* and avg_entry = (q1 * p1 + q2 * p2) / (q1 + q2)
C19_WeightedEntry ==
    [][(op'.origin # "" /\ Adding) =>
          LET q1 == AbsInt(Held(op'.symbol))
              q2 == op'.order.qty
          IN  /\ positions'[op'.symbol].qty = Held(op'.symbol) + qty_signed(op'.order)
              /\ Mul(positions'[op'.symbol].avg_entry, q1 + q2)
                    = Add(Mul(positions[op'.symbol].avg_entry, q1),
                          Mul(op'.price, q2))]_vars

\* a fill has added to a position a quantity other than the one held, at a price
\* other than the average entry
C19_AddedUnequal ==
    /\ IsFill
    /\ op.old_qty * qty_signed(op.order) > 0
    /\ AbsInt(op.old_qty) # op.order.qty
    /\ positions[op.symbol].avg_entry # op.price

\* the fill of the step closes part of an open position
PartialClose ==
    /\ Held(op'.symbol) * qty_signed(op'.order) < 0
    /\ Held(op'.symbol) * (Held(op'.symbol) + qty_signed(op'.order)) > 0

Opening == Held(op'.symbol) = 0

\* C21: a fill that opens a position from flat, of a market order or of a
\* triggered resting order, leaves qty at the signed order quantity, avg_entry at
\* the fill price, the leverage of the order as the caller placed it and
\* entry_time at the time of the fill, realizes nothing, and takes the fee
\* qty * price * fee_bps / 10000 from cash and from cumulative_fees
C21_OpenFromFlat ==
    [][(op'.origin \in {"market", "limit"} /\ Opening) =>
          /\ positions'[op'.symbol].qty = qty_signed(op'.order)
          /\ positions'[op'.symbol].avg_entry = op'.price
          /\ positions'[op'.symbol].leverage = PlacedLeverage(op'.order)
          /\ positions'[op'.symbol].entry_time = now'
          /\ op'.realized_pnl = Num(0)
          /\ positions'[op'.symbol].realized_pl = RealizedOf(positions, op'.symbol)
          /\ cash' = Sub(cash, FeeOfStep)
          /\ cumulative_fees' = Sub(cumulative_fees, FeeOfStep)]_vars

\* the fill of a triggered resting order has opened a position from flat
C21_LimitOpened ==
    /\ op.origin = "limit"
    /\ op.old_qty = 0
    /\ positions[op.symbol].qty = qty_signed(op.order)

\* the positions opened by one fill and since closed completely by fills at one
\* price
ClosedCycles == {s \in Symbols : cycle[s].qty # 0 /\ cycle[s].left = 0}

\* C22: a position of q opened at an entry price and closed completely at one
\* exit price has realized q * (exit - entry) * sign in total, whether one fill
\* closed it or several partial closes did, and cash has changed by that amount
\* less the fees of the fills
C22_PathIndependence ==
    \A s \in ClosedCycles :
        LET c == cycle[s]
            total == Mul(Sub(c.exit, c.entry), c.qty)
        IN  /\ c.realized = total
            /\ c.cash = Sub(total, c.fees)

\* a position of two or more has been closed completely by more than one fill,
\* at a price other than its entry price
C22_ClosedInParts ==
    \E s \in ClosedCycles :
        /\ cycle[s].closes > 1
        /\ cycle[s].exit # cycle[s].entry
        /\ op.symbol = s
        /\ IsFill

\* the step is a fill of an order the caller placed with reduce_only = true
ReduceOnlyFill ==
    /\ op'.origin \in {"market", "limit"}
    /\ AsPlaced(op'.order).reduce_only

\* C23: reduce_only is not enforced: a reduce-only limit order is accepted into
\* the book with its full quantity, and the fill of a reduce-only order is
\* applied with the order's full quantity, neither rejected nor cut down, so an
\* order larger than the open position reverses it and an order on a flat symbol
\* opens a position
C23_ReduceOnlyNotEnforced ==
    [][/\ ReduceOnlyFill =>
            /\ positions'[op'.symbol].qty = Held(op'.symbol) + qty_signed(op'.order)
            /\ op'.fee = FeeOfStep
            /\ op'.origin = "market" => call'.busy
       /\ (LimitPlaced /\ op'.order.reduce_only) =>
            /\ result'.success
            /\ SimOrder(op'.order) \in Book(open_orders')
      ]_vars

\* a reduce-only order larger than the long position has been filled and has
\* left a short position of the excess
C23_ReduceOnlyReversed ==
    /\ op.origin \in {"market", "limit"}
    /\ AsPlaced(op.order).reduce_only
    /\ op.old_qty > 0
    /\ op.order.qty > op.old_qty
    /\ positions[op.symbol].qty = op.old_qty - op.order.qty

\* the liquidating fills the step has started
NewLiquidations ==
    {ready'[i] : i \in {j \in 1..Len(ready') :
                          ready'[j].origin = "liq" /\ ready'[j].trig > nTrig}}

\* the equity the liquidation check of a tick for symbol s at a mark sets against
\* the margin: the account's cash and funding balance after the tick's accrual,
\* and the unrealized P&L of s alone
EquityAt(s, mark) ==
    Add(Add(cash, Mul(Sub(mark, positions[s].avg_entry), positions[s].qty)),
        cumulative_funding')

\* mm * |qty| * mark
RequiredAt(s, mark) == Div(Mul(Mul(mark, AbsInt(positions[s].qty)), mm_pct), 100)

\* the forced order and its price for a position of qty at a mark
ForcedFill(s, qty, mark) ==
    [side  |-> IF qty > 0 THEN "sell" ELSE "buy",
     qty   |-> AbsInt(qty),
     price |-> IF qty > 0 THEN Div(Mul(mark, 10000 - liq_penalty_bps), 10000)
                          ELSE Div(Mul(mark, 10000 + liq_penalty_bps), 10000)]

\* C24: a tick for a symbol with an open position starts a liquidation exactly
\* when cash + the symbol's unrealized P&L at the tick's mark + cumulative_funding
\* is below mm * |qty| * mark; the forced order is then one order on the closing
\* side for the whole |qty| at the mark less the penalty for a long and plus the
\* penalty for a short; a tick for a flat symbol and every other step start none
C24_LiquidationIff ==
    [][IF op'.kind = "tick" /\ Held(op'.symbol) # 0
       THEN LET s    == op'.symbol
                mark == market_cache'[s].mark
                due  == Less(EquityAt(s, mark), RequiredAt(s, mark))
                f    == ForcedFill(s, positions[s].qty, mark)
            IN  /\ due <=> NewLiquidations # {}
                /\ \A t \in NewLiquidations :
                      /\ t.order.symbol = s
                      /\ t.order.side = f.side
                      /\ t.order.qty = f.qty
                      /\ t.fill_price = f.price
                /\ Cardinality(NewLiquidations) <= 1
       ELSE NewLiquidations = {}
      ]_vars

\* a tick has started the liquidation of a short position
C24_ShortLiquidated ==
    /\ op.kind = "tick"
    /\ op.liquidated
    /\ op.old_qty < 0
    /\ \E i \in 1..Len(ready) :
          /\ ready[i].origin = "liq"
          /\ ready[i].order.side = "buy"
          /\ ready[i].trig = nTrig

\* the tick of the step has added a funding payment to cumulative_funding
Accrued == op'.kind = "tick" /\ cumulative_funding' # cumulative_funding

\* C25: two funding payments for the position of one symbol are never accrued
\* within the same 60 seconds: a tick that accrues a payment comes at least 60
\* seconds after the tick of the symbol's payment before it
C25_OnePaymentPerMinute ==
    [][(Accrued /\ funded[op'.symbol].paid_at # NoTime) =>
          now' - funded[op'.symbol].paid_at >= FundingPeriod]_vars

\* a position has accrued its second funding payment
C25_PaidTwice ==
    /\ op.kind = "tick"
    /\ op.paid
    /\ funded[op.symbol].payments > 1
    /\ funded[op.symbol].paid_at = now

\* the payment of one minute on a position of qty at a mark and an 8-hour rate
\* given in units of 0.0001: -sign(qty) * |qty| * mark * rate / 480
PaymentDue(qty, mark, rate) ==
    LET perMinute == Div(Mul(Mul(mark, AbsInt(qty)), rate), 10000 * 480)
    IN  IF qty > 0 THEN Neg(perMinute) ELSE perMinute

\* C26: a funding accrual adds -sign(qty) * |qty| * mark * funding_8h_rate / 480
\* to cumulative_funding, so that a long pays and a short receives when the rate
\* is positive, and sets last_funding_ts to the tick time; the accrual leaves
\* cash, every position's qty and avg_entry and, unless the same tick also
\* liquidates, cumulative_fees as they are; a tick for a flat or absent position
\* accrues nothing
C26_FundingPayment ==
    [][op'.kind = "tick" =>
          LET s == op'.symbol
              m == market_cache'[s]
          IN  /\ Accrued =>
                    /\ Held(s) # 0
                    /\ cumulative_funding' =
                          Add(cumulative_funding,
                              PaymentDue(Held(s), m.mark, m.funding_8h_rate))
                    /\ Less(Num(0), Mul(Sub(cumulative_funding, cumulative_funding'),
                                        Held(s) * m.funding_8h_rate))
                    /\ positions'[s].last_funding_ts = now'
              /\ Held(s) = 0 => ~Accrued /\ positions' = positions
              /\ cash' = cash
              /\ \A t \in DOMAIN positions :
                    /\ positions'[t].qty = positions[t].qty
                    /\ positions'[t].avg_entry = positions[t].avg_entry
              /\ DOMAIN positions' = DOMAIN positions
              /\ ~op'.liquidated => cumulative_fees' = cumulative_fees
      ]_vars

\* a short position has received a funding payment at a positive rate
C26_ShortReceived ==
    /\ op.kind = "tick"
    /\ op.paid
    /\ positions[op.symbol].qty < 0
    /\ market_cache[op.symbol].funding_8h_rate > 0
    /\ Less(Num(0), op.payment)

\* the tick of the step is the first funding evaluation of the position of its
\* symbol since that position was opened from flat
FirstEvaluation ==
    /\ op'.kind = "tick"
    /\ Held(op'.symbol) # 0
    /\ funded[op'.symbol].first_eval = NoTime

\* C27: the first funding evaluation of a position after it was opened from flat
\* accrues no payment and only sets last_funding_ts to the tick time, and a
\* payment is accrued for the position no earlier than one minute after that
\* first evaluation
C27_FirstEvaluationSeeds ==
    [][/\ FirstEvaluation =>
            /\ ~Accrued
            /\ positions'[op'.symbol].last_funding_ts = now'
       /\ (Accrued /\ ~FirstEvaluation) =>
            now' - funded[op'.symbol].first_eval >= FundingPeriod
      ]_vars

\* the first funding evaluation of a position has come a minute or more after
\* the fill that opened it
C27_FirstEvaluationLate ==
    /\ op.kind = "tick"
    /\ funded[op.symbol].first_eval = now
    /\ positions[op.symbol].qty # 0
    /\ positions[op.symbol].entry_time # NoTime
    /\ now - positions[op.symbol].entry_time >= FundingPeriod

\* C28: in funding mode A and in mode C the rate computed on every tick is 0,
\* cumulative_funding is 0 in every reachable state, and the equity
\* get_account_state returns is cash plus the unrealized P&L
C28_ZeroFunding ==
    /\ funding_mode \in ZeroModes
    /\ \A s \in DOMAIN market_cache : market_cache[s].funding_8h_rate = 0
    /\ cumulative_funding = Num(0)
    /\ op.kind = "get_account_state" =>
          account.equity = Add(account.cash, account.unrealized_pl)
    /\ op.kind = "get_account_state" =>
          account.equity =
              Add(cash, SumNum([s \in MarkedPositions |-> MarkToMarket(s)],
                               MarkedPositions))

\* in mode C a tick has run the accrual for a position a minute after the last
\* one
C28_AccruedNothing ==
    /\ funding_mode = "C"
    /\ op.kind = "tick"
    /\ op.paid
    /\ positions[op.symbol].qty # 0

\* C29: a tick for a symbol outside the tracked set changes nothing: market_cache,
\* ema24, positions, the book, cash, cumulative_fees and cumulative_funding stay
\* as they are, the symbol has no cache entry afterwards, and place_order for it
\* is still rejected for want of market data
C29_UntrackedTickIsNoOp ==
    [][/\ (op'.kind = "tick" /\ op'.symbol \notin Symbols) =>
            /\ engine' = engine
            /\ ready' = ready
       /\ DOMAIN market_cache' \subseteq Symbols
       /\ (op'.kind = "place_order" /\ op'.symbol \notin Symbols) =>
            /\ ~result'.success
            /\ result'.of = "place_order"
            /\ engine' = engine
            /\ ~call'.busy
      ]_vars

\* a position has been opened by place_order on a symbol outside the tracked
\* set, after a tick for it
C29_UntrackedTraded ==
    /\ op.kind = "place_order"
    /\ op.symbol \notin Symbols
    /\ op.symbol \in DOMAIN market_cache
    /\ op.symbol \in DOMAIN positions
    /\ positions[op.symbol].qty # 0

\* the tick of the step has been processed in full: its quote is cached, no
\* resting order of the symbol that the quote crosses is left in the book, the
\* funding accrual that was due has stamped the position, the liquidation
\* check has started a liquidation exactly when the margin is short, and the
\* average of the mark has taken the new mark in
ProcessedInFull ==
    LET s == op'.symbol
        m == market_cache'[s]
    IN  /\ s \in DOMAIN market_cache'
        /\ m.mark = op'.price
        /\ \A o \in Book(open_orders') : ~is_crossed(o, s, m.best_bid, m.best_ask)
        /\ \A o \in Book(op'.crossed) : o.client_id \in InFlightIds(ready')
        /\ (Held(s) # 0 /\ now' - positions[s].last_funding_ts >= FundingPeriod) =>
              /\ positions'[s].last_funding_ts = now'
              /\ Accrued
        /\ Held(s) # 0 =>
              (Less(EquityAt(s, m.mark), RequiredAt(s, m.mark))
                  <=> NewLiquidations # {})
        /\ ema24' = update_ema(ema24, s, m.mark)

\* C30: an error raised while a tick is evaluated does not stop the handling of
\* ticks: the message loop is still running after it, and every tick that
\* follows, for the same symbol or another, is processed in full
C30_TicksSurviveErrors ==
    [][/\ feed'.running
       /\ (op'.kind = "tick" /\ feed.errors > 0) => ProcessedInFull]_vars

\* after the evaluation of a tick has raised, a later tick for the same symbol
\* has accrued funding
C30_TickAfterError ==
    /\ op.kind = "tick"
    /\ feed.errors > 0
    /\ feed.running
    /\ op.paid
    /\ positions[op.symbol].qty # 0

\* C31: cumulative_fees starts at 0, is never above 0 and never increases: a
\* fill and a liquidation lower it or leave it as it is, and no other step
\* changes it
C31_FeesOnlyDecrease ==
    /\ cumulative_fees = Num(0)
    /\ [][/\ Leq(cumulative_fees', cumulative_fees)
          /\ Leq(cumulative_fees', Num(0))
          /\ cumulative_fees' # cumulative_fees =>
                \/ op'.origin # ""
                \/ op'.kind = "tick" /\ op'.liquidated]_vars

\* a liquidation has lowered cumulative_fees after fills had lowered it
C31_FeesLoweredTwice ==
    /\ op.kind = "tick"
    /\ op.liquidated
    /\ Less(Num(0), fees_sum)
    /\ Less(cumulative_fees, Neg(fees_sum))

\* the symbols of a sequence
Range(q) == {q[i] : i \in 1..Len(q)}

\* C32: get_account_state and get_market_state are pure reads: they change
\* nothing of the engine (cash, fees, funding, positions, book, market cache,
\* ema) and start nothing, however often they are called; get_market_state
\* returns the cache entry of every requested symbol that has one, and of no
\* other symbol
C32_PureReads ==
    [][/\ op'.kind \in {"get_account_state", "get_market_state"} =>
            /\ engine' = engine
            /\ ready' = ready
            /\ persisting' = persisting
            /\ call' = call
       /\ op'.kind = "get_market_state" =>
            /\ {m.symbol : m \in Range(markets'.markets)}
                  = Range(markets'.symbols) \cap DOMAIN market_cache
            /\ \A m \in Range(markets'.markets) : m.info = market_cache[m.symbol]
            /\ Len(markets'.markets) = Cardinality(Range(markets'.markets))
      ]_vars

\* get_market_state has been called with an order resting, for two symbols of
\* which one has no cache entry, and has returned one entry
C32_ReadOneOfTwo ==
    /\ op.kind = "get_market_state"
    /\ Len(markets.symbols) = 2
    /\ Len(markets.markets) = 1
    /\ open_orders # <<>>

\* the quote of bid b and ask a crosses the order: a buy at a >= its ask, a sell
\* at b <= its bid
Crosses(o, b, a) ==
    \/ o.side = "buy" /\ ~Less(o.limit_price, a)
    \/ o.side = "sell" /\ ~Less(b, o.limit_price)

\* the fill tasks the step has put into the event loop
NewTasks == {ready'[i] : i \in {j \in 1..Len(ready') : ready'[j].trig > nTrig}}

\* C33: a tick for symbol S with bid b and ask a removes a resting order on S
\* from the book and forwards it to the fill engine exactly when it is a buy
\* with limit_price >= a or a sell with limit_price <= b; the fill is for the
\* order's side and full quantity at its own limit price, and is applied so;
\* the other resting orders stay in the book as they are
C33_CrossingRule ==
    [][/\ op'.kind = "tick" =>
            LET s == op'.symbol
                b == market_cache'[s].best_bid
                a == market_cache'[s].best_ask
                gone == {o \in Book(open_orders) : o.symbol = s /\ Crosses(o, b, a)}
            IN  /\ Book(open_orders') = Book(open_orders) \ gone
                /\ open_orders' = SelectSeq(open_orders, LAMBDA o : o \notin gone)
                /\ \A o \in gone :
                      \E t \in NewTasks :
                          /\ t.origin = "limit"
                          /\ t.order.client_id = o.client_id
                          /\ t.order.symbol = s
                          /\ t.order.side = o.side
                          /\ t.order.qty = o.qty
                          /\ t.fill_price = o.limit_price
                /\ Cardinality({t \in NewTasks : t.origin = "limit"})
                      = Cardinality(gone)
       /\ op'.origin = "limit" =>
            /\ op'.price = op'.order.limit_price
            /\ positions'[op'.symbol].qty = Held(op'.symbol) + qty_signed(op'.order)
            /\ Head(ready).order = op'.order
            /\ Head(ready).fill_price = op'.price
      ]_vars

\* a tick has crossed a buy order whose limit price is above the ask and has
\* left another order resting
C33_CrossedThrough ==
    /\ op.kind = "tick"
    /\ \E i \in 1..Len(op.crossed) :
          /\ op.crossed[i].side = "buy"
          /\ Less(market_cache[op.symbol].best_ask, op.crossed[i].limit_price)
    /\ open_orders # <<>>

\* the orders accepted into the book so far
Logged == 1..Len(order_log)

\* the fill tasks waiting in the event loop for a logged order
TasksOf(e) == {j \in 1..Len(ready) : ready[j].origin = "limit" /\ ready[j].trig \in e.trigs}

\* C34: a resting order is filled at most once: once a tick has crossed it, it
\* is out of the book with one fill task, the fill is eventually applied, once,
\* when the event loop runs its tasks, and nothing fills it again; an order
\* that cancel_order has cancelled with success is never filled
C34_FilledAtMostOnce ==
    /\ [](\A i \in Logged :
            LET e == order_log[i]
            IN  /\ Cardinality(e.trigs) <= 1
                /\ e.fills <= 1
                /\ e.state \in {"resting", "replaced", "cancelled"} =>
                      e.trigs = {} /\ e.fills = 0
                /\ e.state = "crossed" =>
                      /\ e.fills = 0
                      /\ Cardinality(TasksOf(e)) = 1
                      /\ i = Latest(order_log, e.client_id) =>
                            e.client_id \notin BookIds(open_orders)
                /\ e.state = "filled" => e.fills = 1 /\ TasksOf(e) = {})
    /\ [][/\ \A i \in Logged :
                order_log[i].state \in {"cancelled", "filled"} =>
                    order_log'[i] = order_log[i]
          /\ op'.origin = "limit" =>
                \E i \in Logged :
                    /\ order_log[i].state = "crossed"
                    /\ order_log'[i].state = "filled"
                    /\ order_log[i].client_id = op'.client_id
                    /\ order_log[i].order.qty = op'.order.qty
                    /\ \A j \in Logged \ {i} : order_log'[j] = order_log[j]
          /\ op'.kind = "cancel_order" /\ result'.success =>
                order_log'[Latest(order_log, op'.client_id)].state = "cancelled"
         ]_vars
    /\ \A i \in 1..MaxSteps :
          (i \in Logged /\ order_log[i].state = "crossed")
              ~> (i \in Logged /\ order_log[i].fills = 1)

\* an order was crossed and filled, and a later tick whose quote crosses its
\* limit price again has scheduled no fill
C34_CrossedAgain ==
    /\ op.kind = "tick"
    /\ op.crossed = <<>>
    /\ ready = <<>>
    /\ \E i \in Logged :
          /\ order_log[i].state = "filled"
          /\ order_log[i].order.symbol = op.symbol
          /\ Crosses(order_log[i].order, market_cache[op.symbol].best_bid,
                     market_cache[op.symbol].best_ask)

\* the liquidating fills of a symbol that wait in the event loop
PendingLiquidations(s) ==
    {j \in 1..Len(ready) : ready[j].origin = "liq" /\ ready[j].order.symbol = s}

\* C35: a position is liquidated at most once: a tick for a symbol whose
\* liquidating fill still waits to be applied schedules no second liquidating
\* fill and charges no second liquidation fee
C35_OneLiquidationPerPosition ==
    [][op'.kind = "tick" /\ PendingLiquidations(op'.symbol) # {} =>
          /\ NewLiquidations = {}
          /\ ~op'.liquidated
          /\ liq_fees_sum' = liq_fees_sum
          /\ cumulative_fees' = cumulative_fees]_vars

\* two liquidating fills of one position wait in the event loop, and the fee
\* has been charged for each
C35_LiquidatedTwice ==
    /\ op.kind = "tick"
    /\ op.liquidated
    /\ Cardinality(PendingLiquidations(op.symbol)) = 2
    /\ ready[1].order.qty = AbsInt(positions[op.symbol].qty)
    /\ ready[2].order.qty = AbsInt(positions[op.symbol].qty)
    /\ Less(op.liq_fee, liq_fees_sum)
    /\ cumulative_fees = Sub(Neg(fees_sum), liq_fees_sum)

\* C36: the fill of the order that PositionManager places for a "close"
\* decision leaves the position of its symbol flat, whatever the ticks did
\* between the snapshot of the positions and the order
C36_CloseFlattens ==
    [][op'.kind = "place_order" /\ op'.client_id = "close" /\ op'.origin = "market" =>
          positions'[op'.symbol].qty = 0]_vars

\* place_order has returned success for the close order, and the only position
\* the account ever had is not flat
C36_ClosedNotFlat ==
    /\ op.kind = "insert_trade"
    /\ result.of = "place_order"
    /\ result.client_id = "close"
    /\ result.success
    /\ DOMAIN positions = {"BTC-USD"}
    /\ positions["BTC-USD"].qty # 0

\* the client ids of a sequence of orders
IdsOf(actions) == {actions[i].client_id : i \in 1..Len(actions)}

\* C37: the orders of a normalized action carry pairwise distinct client ids,
\* none of them in used_client_ids; the client_id of every resting order is in
\* used_client_ids, and an order that _execute_via_adapter places never takes
\* the place of a resting order
C37_ClientIdsKeptApart ==
    /\ [](BookIds(open_orders) \subseteq used_client_ids)
    /\ [][/\ op'.kind = "normalize" =>
                /\ Cardinality(IdsOf(pending_action'.actions))
                      = Len(pending_action'.actions)
                /\ IdsOf(pending_action'.actions) \cap used_client_ids = {}
          /\ op'.kind = "place_order" =>
                /\ op'.client_id \notin BookIds(open_orders)
                /\ Book(open_orders) \subseteq Book(open_orders')
                /\ result'.success /\ op'.order.order_type = "limit" =>
                      Len(open_orders') = Len(open_orders) + 1
         ]_vars

\* an order placed under the client_id of a resting order rests next to it
\* under an id of its own
C37_RestingSideBySide ==
    /\ op.kind = "place_order"
    /\ op.client_id \in Suffixed("c1")
    /\ BookIds(open_orders) = {"c1", op.client_id}
    /\ Len(open_orders) = 2

\* the seconds between the tick of the step and the last funding time of the
\* position of its symbol
Elapsed == now' - positions[op'.symbol].last_funding_ts

\* C38: the payment of a funding accrual does not depend on the time elapsed: a
\* tick that finds one minute or more since the position's last funding time
\* adds the payment of exactly one minute, however many minutes have passed,
\* and counts as one accrual; a tick that finds less adds nothing
C38_OneMinutePerAccrual ==
    [][(/\ op'.kind = "tick"
        /\ Held(op'.symbol) # 0
        /\ positions[op'.symbol].last_funding_ts # NoTime) =>
          LET s == op'.symbol
              m == market_cache'[s]
          IN  IF Elapsed >= FundingPeriod
              THEN /\ cumulative_funding' =
                         Add(cumulative_funding,
                             PaymentDue(Held(s), m.mark, m.funding_8h_rate))
                   /\ op'.payment = PaymentDue(Held(s), m.mark, m.funding_8h_rate)
                   /\ positions'[s].last_funding_ts = now'
                   /\ funded'[s].payments = funded[s].payments + 1
              ELSE /\ cumulative_funding' = cumulative_funding
                   /\ positions'[s].last_funding_ts = positions[s].last_funding_ts
                   /\ funded'[s].payments = funded[s].payments
      ]_vars

\* a position opened at time 0 has accrued its first payment two minutes later,
\* the payment of one minute
C38_PaidAfterTwoMinutes ==
    /\ op.kind = "tick"
    /\ op.paid
    /\ now = 2 * FundingPeriod
    /\ positions[op.symbol].entry_time = 0
    /\ funded[op.symbol].payments = 1
    /\ op.payment # Num(0)
    /\ op.payment = PaymentDue(positions[op.symbol].qty, market_cache[op.symbol].mark,
                               market_cache[op.symbol].funding_8h_rate)
    /\ cumulative_funding = op.payment

\* what the engine holds for a symbol: its position, its resting orders, its
\* market-cache entry and its ema
Holding(p, oo, cache, ema, t) ==
    [position |-> IF t \in DOMAIN p THEN <<p[t]>> ELSE <<>>,
     orders   |-> SelectSeq(oo, LAMBDA o : o.symbol = t),
     market   |-> IF t \in DOMAIN cache THEN <<cache[t]>> ELSE <<>>,
     ema      |-> IF t \in DOMAIN ema THEN <<ema[t]>> ELSE <<>>]

\* C39: a tick for a symbol S, and the crossing fills and the liquidating fill
\* that it triggers, leave the position (qty, avg_entry, leverage, realized_pl,
\* last_funding_ts), the resting orders, the market-cache entry and the ema of
\* every other symbol as they are
C39_TickFrame ==
    [][(op'.kind = "tick" \/ op'.origin \in {"limit", "liq"}) =>
          \A t \in (Symbols \cup DOMAIN positions' \cup DOMAIN market_cache'
                    \cup DOMAIN ema24') \ {op'.symbol} :
              Holding(positions', open_orders', market_cache', ema24', t)
                  = Holding(positions, open_orders, market_cache, ema24, t)
      ]_vars

\* a tick for one symbol has come while the position of another symbol was
\* open and a minute past its last funding time
C39_OtherSymbolDue ==
    /\ op.kind = "tick"
    /\ \E t \in DOMAIN positions \ {op.symbol} :
          /\ positions[t].qty # 0
          /\ now - positions[t].last_funding_ts >= FundingPeriod
          /\ t \in DOMAIN ema24
          /\ funded[t].payments = 0

====
